---- MODULE Spec2Model ----
(***************************************************************************)
(* Model of the collection pipeline of github_miner/miner.py:              *)
(*   - parallel_data_collection: validation, a bounded thread pool with    *)
(*     one task per username, the as_completed gather loop and the tally;  *)
(*   - mine_repository_contributors: the entry point that lists the        *)
(*     contributors of a repository and delegates to the pool;             *)
(*   - collect_single_user: the identity fetch and the six sections;       *)
(*   - append_single_user_to_export with _append_to_json_file and          *)
(*     _append_to_csv_file, at the granularity of their file operations.   *)
(*                                                                         *)
(* A file is a sequence of tokens.  A write puts tokens at an offset, as   *)
(* the operating system does, and the JSON file is read back by a parser,  *)
(* so that what an append leaves on disk is computed, not assumed.         *)
(***************************************************************************)
EXTENDS Integers, Sequences, FiniteSets, TLC

\* ------------------------------------------------------------------ bounds
NumUsers == 2          \* usernames handed to one run
MaxWorkers == 2        \* largest max_workers a caller passes
MaxFaults == 1         \* remote / file-system failures injected in one run
MaxAppends == 3        \* appends of one sequential sink session
NumRepos == 2          \* repositories an account lists
MaxCommits == 52       \* commits in the longest history of a repository
MaxQueryFaults == 3    \* remote failures injected in one commit analysis
MaxLongFaults == 1     \* the same for the analysis of a long listing

\* --------------------------------------------------------------- constants
RecentCommitsCap == 50 \* `len(activity_data['recent_commits']) < 50`
Method3Page == 50      \* `repo.get_commits()[:50]`
RepoLimitAll == 25     \* `repo_limit = 25 if fetch_all_commits else 15`
RepoLimitRecent == 15

Users == 1..NumUsers

\* ------------------------------------------------------- records and keys
\* Optional values: None is the empty sequence, Some(x) the singleton.
None == <<>>
Some(x) == <<x>>
IsNone(o) == Len(o) = 0
Val(o) == o[1]

\* The keys collect_single_user assigns, in assignment order.
IdentityKeys == <<"username", "followers", "following", "public_repos",
                  "created_at", "updated_at">>
SectionKeys == <<"extended_user_data", "development_patterns",
                 "commit_activity", "social_network",
                 "repository_portfolio", "contribution_quality">>
KeyOrder == IdentityKeys \o SectionKeys
NumSections == Len(SectionKeys)
AllKeys == {KeyOrder[i] : i \in 1..Len(KeyOrder)}
SectionKeySet == {SectionKeys[i] : i \in 1..NumSections}

\* The dict built from the profile object: datetimes stay datetime objects.
IdentityRecord(u) ==
    [k \in {IdentityKeys[i] : i \in 1..Len(IdentityKeys)} |->
        IF k = "username" THEN u
        ELSE IF k \in {"created_at", "updated_at"} THEN "datetime"
        ELSE "data"]

\* user_data[key] = value
SetKey(rec, key, value) ==
    [k \in (DOMAIN rec) \cup {key} |-> IF k = key THEN value ELSE rec[k]]

\* Sections whose own code polls the stop event (analyze_development_patterns
\* breaks out of its repository loop, analyze_commit_activity returns the
\* zero summary or breaks out of its loop).
PollsStopEvent(key) == key \in {"development_patterns", "commit_activity"}

\* The value a section's call returns when it does not raise.
SectionResult(key, stop) ==
    IF stop /\ PollsStopEvent(key) THEN "cut" ELSE "data"

\* The first username of a run is an account without original repositories
\* (none at all, or forks only).
NoOriginalRepos(u) == u = 1

\* For such an account analyze_commit_activity returns, when it is not
\* stopped, the summary it has just initialised: every counter zero.
SectionValue(u, key, stop) ==
    IF key = "commit_activity" /\ ~stop /\ NoOriginalRepos(u)
    THEN "zero_summary"
    ELSE SectionResult(key, stop)

\* The except branch of a section.
AfterSectionFailMissing(rec, key) == rec
AfterSectionFailClearsEarlier(rec, key) ==
    [k \in (DOMAIN rec) \cup {key} |->
        IF k \in SectionKeySet THEN "default" ELSE rec[k]]
AfterSectionFail(rec, key) == SetKey(rec, key, "default")

\* What a finished record looks like when nothing failed and nothing stopped.
FullRecord(u) ==
    [k \in AllKeys |->
        IF k \in SectionKeySet THEN "data" ELSE IdentityRecord(u)[k]]

\* ------------------------------------------------------------ file tokens
\* One token per character of the punctuation the sink writes ("[", "]",
\* ",", newline); a record's fields are tokens too, so a record has a width.
Tok(t) == [t |-> t, k |-> "", v |-> "", u |-> 0]
FieldTok(k, v, u) == [t |-> "field", k |-> k, v |-> v, u |-> u]
ContTok(k) == [t |-> "cont", k |-> k, v |-> "", u |-> 0]

\* datetime_handler: a datetime becomes its ISO-8601 string.
datetime_handler(v) == IF v = "datetime" THEN "iso8601" ELSE v

\* The text json.dump produces for one key: a collected section is a nested
\* object and takes more room than the {} of a defaulted one.
DumpField(rec, k) ==
    IF k = "username" THEN <<FieldTok(k, "str", rec[k])>>
    ELSE IF k \in SectionKeySet /\ rec[k] = "data"
         THEN <<FieldTok(k, "data", 0), ContTok(k)>>
    ELSE <<FieldTok(k, datetime_handler(rec[k]), 0)>>

RECURSIVE DumpFrom(_, _)
DumpFrom(rec, i) ==
    IF i > Len(KeyOrder) THEN <<>>
    ELSE (IF KeyOrder[i] \in DOMAIN rec THEN DumpField(rec, KeyOrder[i])
          ELSE <<>>) \o DumpFrom(rec, i + 1)

\* json.dump(user_data, f, indent=2, default=datetime_handler)
Dump(rec) == <<Tok("{")>> \o DumpFrom(rec, 1) \o <<Tok("}")>>

\* datetime_handler raises TypeError for a value that is not a datetime: a
\* value json cannot encode by itself and the handler does not convert.
NotSerializable(v) == v = "object"

\* json.dump raises while it encodes the record (the login is a string).
FieldRaises(rec, k) == k # "username" /\ NotSerializable(rec[k])
DumpRaises(rec) == \E k \in DOMAIN rec : FieldRaises(rec, k)

\* json.dump with an indent writes the text piece by piece: what precedes
\* the value that cannot be encoded, its key included, is already written
\* when the TypeError is raised.
KeyTok(k) == [t |-> "key", k |-> k, v |-> "", u |-> 0]

RECURSIVE DumpUntilError(_, _)
DumpUntilError(rec, i) ==
    IF i > Len(KeyOrder) THEN <<>>
    ELSE IF KeyOrder[i] \notin DOMAIN rec THEN DumpUntilError(rec, i + 1)
    ELSE IF FieldRaises(rec, KeyOrder[i]) THEN <<KeyTok(KeyOrder[i])>>
    ELSE DumpField(rec, KeyOrder[i]) \o DumpUntilError(rec, i + 1)

DumpPrefix(rec) == <<Tok("{")>> \o DumpUntilError(rec, 1)

\* What json.load gives back for a dumped record.
JsonImage(rec) ==
    [k \in DOMAIN rec |->
        IF k = "username" THEN rec[k] ELSE datetime_handler(rec[k])]

\* ----------------------------------------------------------- JSON parsing
ParseFail == [ok |-> FALSE, items |-> <<>>]

StripWs(b) == SelectSeq(b, LAMBDA t : t.t # "nl")

RECURSIVE ParseFields(_, _, _)
ParseFields(toks, i, acc) ==
    IF i > Len(toks) THEN [ok |-> TRUE, obj |-> acc]
    ELSE LET t == toks[i] IN
         IF t.t # "field" THEN [ok |-> FALSE, obj |-> acc]
         ELSE IF t.k \in SectionKeySet /\ t.v = "data"
              THEN IF i + 1 <= Len(toks) /\ toks[i + 1].t = "cont"
                      /\ toks[i + 1].k = t.k
                   THEN ParseFields(toks, i + 2, SetKey(acc, t.k, "data"))
                   ELSE [ok |-> FALSE, obj |-> acc]
         ELSE IF t.k = "username"
              THEN ParseFields(toks, i + 1, SetKey(acc, t.k, t.u))
         ELSE ParseFields(toks, i + 1, SetKey(acc, t.k, t.v))

\* Smallest index >= i holding a token of type ty, 0 when there is none.
RECURSIVE FindTok(_, _, _)
FindTok(toks, i, ty) ==
    IF i > Len(toks) THEN 0
    ELSE IF toks[i].t = ty THEN i
    ELSE FindTok(toks, i + 1, ty)

RECURSIVE ParseElems(_, _, _)
ParseElems(toks, i, acc) ==
    IF i > Len(toks) \/ toks[i].t # "{" THEN ParseFail
    ELSE LET j == FindTok(toks, i + 1, "}") IN
         IF j = 0 \/ j + 1 > Len(toks) THEN ParseFail
         ELSE LET o == ParseFields(SubSeq(toks, i + 1, j - 1), 1, <<>>) IN
              IF ~o.ok THEN ParseFail
              ELSE IF toks[j + 1].t = "]"
                   THEN IF j + 1 = Len(toks)
                        THEN [ok |-> TRUE, items |-> Append(acc, o.obj)]
                        ELSE ParseFail
              ELSE IF toks[j + 1].t = ","
                   THEN ParseElems(toks, j + 2, Append(acc, o.obj))
              ELSE ParseFail

\* json.load on the file's text: a well-formed array of objects, or failure.
ParseJson(b) ==
    LET toks == StripWs(b) IN
    IF Len(toks) < 2 \/ toks[1].t # "[" THEN ParseFail
    ELSE IF toks[2].t = "]"
         THEN IF Len(toks) = 2 THEN [ok |-> TRUE, items |-> <<>>]
              ELSE ParseFail
    ELSE ParseElems(toks, 2, <<>>)

\* --------------------------------------------------------- file operations
AbsentFile == [exists |-> FALSE, bytes |-> <<>>]
EmptyFile == [exists |-> TRUE, bytes |-> <<>>]

\* open(name, 'w'): create or truncate.
OpenW(f) == EmptyFile

\* Flushing data at offset pos: bytes under the data are overwritten, bytes
\* beyond it stay, a hole left by an earlier truncation reads as NULs.
WriteAt(f, pos, data) ==
    LET n == IF Len(f.bytes) > pos + Len(data) THEN Len(f.bytes)
             ELSE pos + Len(data)
    IN [exists |-> TRUE,
        bytes |-> [i \in 1..n |->
            IF i <= pos THEN (IF i <= Len(f.bytes) THEN f.bytes[i]
                              ELSE Tok("nul"))
            ELSE IF i <= pos + Len(data) THEN data[i - pos]
            ELSE f.bytes[i]]]

LastChars(f, n) ==
    SubSeq(f.bytes, (IF Len(f.bytes) > n THEN Len(f.bytes) - n + 1 ELSE 1),
           Len(f.bytes))

HasBracket(chars) == \E i \in 1..Len(chars) : chars[i].t = "]"

\* The three texts _append_to_json_file writes around a record.
JsonFirst(rec) == <<Tok("["), Tok("nl")>> \o Dump(rec) \o <<Tok("nl"), Tok("]")>>
JsonNext(rec) == <<Tok(","), Tok("nl")>> \o Dump(rec) \o <<Tok("nl"), Tok("]")>>

\* Where the append to an existing file starts writing: over the closing
\* bracket when the last two characters hold one, else at end-of-file.
AppendPosAtEnd(size, chars) == size
AppendPosOverLastTwo(size, chars) == size - 2
AppendPos(size, chars) == IF HasBracket(chars) THEN size - 2 ELSE size

\* CSV lines.
HeaderLine == [t |-> "header", u |-> 0]
RowLine(u) == [t |-> "row", u |-> u]

\* _flatten_user_data reduces a record to one row; the row is identified by
\* the username column.
Flatten(rec) == RowLine(rec["username"])

\* -------------------------------------------------- commit activity data
\* A commit as the API returns it: who wrote it, whether its author date is
\* on or after cutoff_date, and the day and hour of that date.
Commit(sha, mine, recent, day, hour) ==
    [sha |-> sha, mine |-> mine, recent |-> recent, day |-> day,
     hour |-> hour]

\* Histories, newest commit first.  The long one has more commits of the
\* account inside the window than the detail list may hold, the last of them
\* on a day of their own, and one commit older than the window.
SmallHistory ==
    <<Commit(1, TRUE, TRUE, 1, 0), Commit(2, FALSE, TRUE, 1, 1),
      Commit(3, TRUE, FALSE, 0, 0)>>
LongHistory ==
    [i \in 1..MaxCommits |->
        Commit(i, TRUE, i < MaxCommits, 1 + ((i - 1) \div 25), i % 2)]

RepoKinds == {"fork", "empty", "small", "long"}
HistoryOf(kind) ==
    IF kind = "empty" THEN <<>>
    ELSE IF kind = "long" THEN LongHistory
    ELSE SmallHistory

\* A repository of the listing; its name is its place in the listing.
Repo(i, kind) == [name |-> i, fork |-> kind = "fork", kind |-> kind]

\* The three queries.  Method 1 filters on the server; methods 2 and 3
\* filter `c.author.login == username` (and, method 3, the date) locally.
ByAuthor(h) == SelectSeq(h, LAMBDA c : c.mine)
Since(h) == SelectSeq(h, LAMBDA c : c.recent)
FirstPage(h) ==
    SubSeq(h, 1, IF Len(h) < Method3Page THEN Len(h) ELSE Method3Page)

Method(all, k, h) ==
    IF all THEN ByAuthor(h)
    ELSE IF k = 1 THEN Since(ByAuthor(h))
    ELSE IF k = 2 THEN ByAuthor(Since(h))
    ELSE SelectSeq(FirstPage(h), LAMBDA c : c.mine /\ c.recent)

\* Methods of the chain: two when every commit is counted, else three.
ChainLength(all) == IF all THEN 2 ELSE 3

\* `except GithubException`: the next method is tried for this kind only.
EscalatesOnAny(kind) == TRUE
Escalates(kind) == kind = "github"

RepoLimit(all) == IF all THEN RepoLimitAll ELSE RepoLimitRecent

\* The dict returned when the stop event is set or the lookup fails.
DefaultSummary(all) ==
    [total_commits |-> 0, total_recent_commits |-> 0, active_days |-> {},
     commit_frequency_by_day |-> <<>>, commit_frequency_by_hour |-> <<>>,
     recent_commits |-> <<>>, most_active_repo |-> None,
     commit_streaks |-> <<>>, avg_commits_per_day |-> <<0, 1>>,
     repositories_analyzed |-> 0, total_repositories |-> 0,
     fetch_mode |-> IF all THEN "all" ELSE "recent"]

\* activity_data as first assigned.
InitialActivity(all, rs) ==
    [total_commits |-> 0, total_recent_commits |-> 0, active_days |-> {},
     commit_frequency_by_day |-> <<>>, commit_frequency_by_hour |-> <<>>,
     recent_commits |-> <<>>, most_active_repo |-> None,
     commit_streaks |-> <<>>, avg_commits_per_day |-> <<0, 1>>,
     repositories_analyzed |-> 0,
     total_repositories |-> Len(SelectSeq(rs, LAMBDA r : ~r.fork)),
     fetch_mode |-> IF all THEN "all" ELSE "recent"]

\* `if key not in d: d[key] = 0` then `d[key] += 1`
Bump(d, key) ==
    [x \in (DOMAIN d) \cup {key} |->
        IF x = key THEN (IF key \in DOMAIN d THEN d[key] ELSE 0) + 1
        ELSE d[x]]

\* `if commit_date >= cutoff_date`
InWindowAlways(c) == TRUE
InWindow(c) == c.recent

\* `len(activity_data['recent_commits']) < 50`
UnderCapAlways(n) == TRUE
UnderCap(n) == n < RecentCommitsCap

\* activity_data['recent_commits'].append(commit_details)
StoreDetailFirstOnly(details, d) ==
    IF details = <<>> THEN <<d>> ELSE details
StoreDetail(details, d) == Append(details, d)

\* The body of `for commit in commits` for one commit; stats_ok is FALSE
\* when reading commit.stats raises, which ends the body before the detail
\* is stored.
CountCommit(ad, c, name, all, stats_ok) ==
    LET counted == [ad EXCEPT
            !.total_commits = IF all THEN @ + 1 ELSE @,
            !.total_recent_commits = IF InWindow(c) THEN @ + 1 ELSE @]
    IN IF InWindow(c) /\ UnderCap(Len(ad.recent_commits))
       THEN [counted EXCEPT
               !.active_days = @ \cup {c.day},
               !.commit_frequency_by_day = Bump(@, c.day),
               !.commit_frequency_by_hour = Bump(@, c.hour),
               !.recent_commits =
                   IF stats_ok
                   THEN StoreDetail(@, [repo |-> name, sha |-> c.sha,
                                        day |-> c.day, hour |-> c.hour])
                   ELSE @]
       ELSE counted

\* max(repo_commit_counts, key=repo_commit_counts.get): the first name, in
\* insertion order, whose count is the largest.
MostActiveLatest(counts) ==
    IF counts = <<>> THEN None
    ELSE LET i == CHOOSE i \in 1..Len(counts) :
                    /\ \A j \in 1..Len(counts) : counts[j][2] <= counts[i][2]
                    /\ \A j \in (i + 1)..Len(counts) :
                          counts[j][2] < counts[i][2]
         IN Some(counts[i][1])
MostActive(counts) ==
    IF counts = <<>> THEN None
    ELSE LET i == CHOOSE i \in 1..Len(counts) :
                    /\ \A j \in 1..Len(counts) : counts[j][2] <= counts[i][2]
                    /\ \A j \in 1..(i - 1) : counts[j][2] < counts[i][2]
         IN Some(counts[i][1])

\* total_recent_commits / total_days as a fraction, 0 without active days.
AvgPerDayUnguarded(ad) ==
    <<ad.total_recent_commits, Cardinality(ad.active_days)>>
AvgPerDay(ad) ==
    IF Cardinality(ad.active_days) > 0
    THEN <<ad.total_recent_commits, Cardinality(ad.active_days)>>
    ELSE ad.avg_commits_per_day

\* The statements after the repository loop.
Finalized(ad, counts) ==
    [ad EXCEPT !.most_active_repo = MostActive(counts),
               !.avg_commits_per_day = AvgPerDay(ad)]

\* ------------------------------------------------------------------ state
VARIABLES
    entry,              \* "parallel", "repo" or "sink": the function called
    contributors,       \* what repo.get_contributors() lists (entry "repo")
    usernames,          \* the list handed to parallel_data_collection
    max_workers,
    save_immediately,
    filename,           \* "" when the caller passed none
    progress_callback,  \* TRUE when a callback was supplied
    stop_event,         \* the shared threading.Event
    stop_phase,         \* "never", "before", "during" or "in_flight"
    opc,                \* where the calling thread is
    pc,                 \* where each task is
    section,            \* index of the section a task is at
    user_data,          \* the record a task has built so far
    ret,                \* the result of a task's future
    file_exists,        \* local of _append_to_json_file / _append_to_csv_file
    file_size,          \* local of _append_to_json_file
    last_chars,         \* local of _append_to_json_file
    jsonFile,           \* <filename>_raw.json
    csvFile,            \* <filename>_ml_features.csv
    results,
    successful_count,
    failed_count,
    first_batch,        \* futures already finished when as_completed starts
    done_queue,         \* futures finished later, in completion order
    progress,           \* messages handed to the callback
    log,                \* logging.error / logging.warning records
    append_calls,       \* calls of append_single_user_to_export so far
    faults,             \* failures injected so far
    \* analyze_commit_activity
    target,             \* the username argument, "" when empty
    fetch_all_commits,
    repos,              \* what user.get_repos() lists
    rpc,                \* where the call is
    activity_data,
    original_repos,     \* names of the non-fork repositories, in list order
    repo_idx,           \* position of the loop in original_repos[:repo_limit]
    strategy,           \* number of the method being tried
    tried,              \* per repository, the methods tried and how they ended
    commits,            \* the list the chosen method produced
    commit_idx,         \* position of the loop in commits
    repo_commits,
    repo_commit_counts, \* <<name, count>> pairs in insertion order
    summary             \* the returned dict

vars == <<entry, contributors, usernames, max_workers, save_immediately,
          filename, progress_callback, stop_event, stop_phase, opc, pc,
          section, user_data, ret, file_exists, file_size, last_chars,
          jsonFile, csvFile, results, successful_count, failed_count,
          first_batch, done_queue, progress, log, append_calls, faults,
          target, fetch_all_commits, repos, rpc, activity_data,
          original_repos, repo_idx, strategy, tried, commits, commit_idx,
          repo_commits, repo_commit_counts, summary>>

inputs == <<entry, contributors, save_immediately, filename,
            progress_callback>>
locals == <<file_exists, file_size, last_chars>>
tally == <<results, successful_count, failed_count, first_batch>>
files == <<jsonFile, csvFile>>
activity == <<target, fetch_all_commits, repos, rpc, activity_data,
              original_repos, repo_idx, strategy, tried, commits, commit_idx,
              repo_commits, repo_commit_counts, summary>>

\* The contributors of the mined repository: every user and one bot account,
\* or the bot alone.
BotOnly == <<[login |-> 0, type |-> "Bot"]>>
UsersAndBot ==
    [i \in 1..(NumUsers + 1) |->
        IF i <= NumUsers THEN [login |-> i, type |-> "User"]
        ELSE [login |-> 0, type |-> "Bot"]]

AllUsernames == [i \in 1..NumUsers |-> i]

Msg(m, u, a, b) == [m |-> m, u |-> u, a |-> a, b |-> b]

\* No call of analyze_commit_activity is being followed.
ResolverIdle ==
    /\ target = ""
    /\ fetch_all_commits = FALSE
    /\ repos = <<>>
    /\ rpc = "idle"
    /\ activity_data = DefaultSummary(FALSE)
    /\ original_repos = <<>>
    /\ repo_idx = 0
    /\ strategy = 0
    /\ tried = <<>>
    /\ commits = <<>>
    /\ commit_idx = 0
    /\ repo_commits = 0
    /\ repo_commit_counts = <<>>
    /\ summary = None

\* Every caller in the repository that saves immediately constructs the miner
\* with a progress callback; runs without one are the plain collections.
InitCommon ==
    /\ save_immediately \in BOOLEAN
    /\ filename \in {"", "t"}
    /\ progress_callback \in (IF save_immediately THEN {TRUE} ELSE BOOLEAN)
    /\ stop_event = FALSE
    /\ stop_phase = "never"
    /\ pc = [u \in Users |-> "unsubmitted"]
    /\ section = [u \in Users |-> 0]
    /\ user_data = [u \in Users |-> None]
    /\ ret = [u \in Users |-> None]
    /\ file_exists = [u \in Users |-> FALSE]
    /\ file_size = [u \in Users |-> 0]
    /\ last_chars = [u \in Users |-> <<>>]
    /\ jsonFile = AbsentFile
    /\ csvFile = AbsentFile
    /\ results = <<>>
    /\ successful_count = 0
    /\ failed_count = 0
    /\ first_batch = {}
    /\ done_queue = <<>>
    /\ progress = {}
    /\ log = {}
    /\ append_calls = 0
    /\ faults = 0
    /\ ResolverIdle

Init ==
    /\ InitCommon
    /\ \/ /\ entry = "parallel"
          /\ contributors = <<>>
          /\ usernames = AllUsernames
          /\ max_workers \in 1..MaxWorkers
          /\ opc = "call"
       \/ /\ entry = "repo"
          /\ contributors \in {UsersAndBot, BotOnly}
          /\ usernames = <<>>
          /\ max_workers = 0
          /\ opc = "mine_call"

\* -------------------------------------------------------------- helpers
Emit(msgs) ==
    progress' = IF progress_callback THEN progress \cup msgs ELSE progress

MayFail == faults < MaxFaults

\* `if save_immediately and not filename`
RequiresFilenameNever(save, name) == FALSE
RequiresFilename(save, name) == save /\ name = ""

\* Tasks a pool thread is executing.
Running == {u \in Users : pc[u] \notin {"unsubmitted", "queued", "finished",
                                        "processed", "idle"}}

\* The future of task u completes with result r.
FinishTask(u, r) ==
    /\ pc' = [pc EXCEPT ![u] = "finished"]
    /\ ret' = [ret EXCEPT ![u] = r]
    /\ user_data' = [user_data EXCEPT ![u] = None]
    /\ section' = [section EXCEPT ![u] = 0]
    /\ done_queue' = IF opc = "gathering" THEN Append(done_queue, u)
                     ELSE done_queue

\* ------------------------------------------------- the cancellation handle
SetStop ==
    /\ ~stop_event
    /\ opc \in {"call", "mine_call", "mine_fetch", "submitted", "gathering"}
    /\ stop_event' = TRUE
    /\ stop_phase' = IF opc \in {"call", "mine_call", "mine_fetch"}
                     THEN "before" ELSE "during"
    /\ UNCHANGED <<inputs, activity,
                   usernames, max_workers, opc, pc, section,
                   user_data, ret, locals, files, tally, done_queue,
                   progress, log, append_calls, faults>>

\* ------------------------------------------- mine_repository_contributors
MineValidate ==
    /\ opc = "mine_call"
    /\ IF RequiresFilename(save_immediately, filename)
       THEN /\ opc' = "mine_raised"
            /\ UNCHANGED progress
       ELSE /\ opc' = "mine_fetch"
            /\ Emit({Msg("getting_contributors", 0, 0, 0)})
    /\ UNCHANGED <<inputs, activity,
                   usernames, max_workers, stop_event, stop_phase,
                   pc, section, user_data, ret, locals, files, tally,
                   done_queue, log, append_calls, faults>>

\* `[c.login for c in contributors if c.type == "User"]`: the type is the
\* only filter.
UserLoginsWithRepos(cs) ==
    LET us == SelectSeq(cs, LAMBDA c : c.type = "User"
                                       /\ ~NoOriginalRepos(c.login))
    IN [i \in 1..Len(us) |-> us[i].login]
UserLogins(cs) ==
    LET us == SelectSeq(cs, LAMBDA c : c.type = "User")
    IN [i \in 1..Len(us) |-> us[i].login]

MineFetch ==
    /\ opc = "mine_fetch"
    /\ usernames' = UserLogins(contributors)
    /\ IF usernames' = <<>>
       THEN /\ opc' = "mine_returned"
            /\ max_workers' = max_workers
            /\ Emit({Msg("found", 0, 0, 0), Msg("no_contributors", 0, 0, 0)})
       ELSE /\ opc' = "call"
            /\ max_workers' = 2
            /\ Emit({Msg("found", 0, Len(usernames'), 0),
                     Msg("starting_to_mine", 0, Len(usernames'), 0)})
    /\ UNCHANGED <<inputs, activity,
                   stop_event, stop_phase, pc, section, user_data,
                   ret, locals, files, tally, done_queue, log, append_calls,
                   faults>>

MineFetchFail ==
    /\ opc = "mine_fetch"
    /\ MayFail
    /\ faults' = faults + 1
    /\ opc' = "mine_error"
    /\ Emit({Msg("error_mining", 0, 0, 0)})
    /\ log' = log \cup {Msg("error_mining", 0, 0, 0)}
    /\ UNCHANGED <<inputs, activity,
                   usernames, max_workers, stop_event, stop_phase,
                   pc, section, user_data, ret, locals, files, tally,
                   done_queue, append_calls>>

MineReturn ==
    /\ entry = "repo"
    /\ opc = "returned"
    /\ opc' = "mine_returned"
    /\ Emit({Msg("mining_completed", 0, Len(results), Len(usernames))})
    /\ UNCHANGED <<inputs, activity,
                   usernames, max_workers, stop_event, stop_phase,
                   pc, section, user_data, ret, locals, files, tally,
                   done_queue, log, append_calls, faults>>

\* ------------------------------------------------ parallel_data_collection
\* The validation and, when it passes, the submission of one task per
\* username to the pool.
Dispatch ==
    /\ opc = "call"
    /\ IF RequiresFilename(save_immediately, filename)
       THEN /\ opc' = "raised"
            /\ pc' = pc
       ELSE /\ opc' = "submitted"
            /\ pc' = [u \in Users |->
                        IF \E i \in 1..Len(usernames) : usernames[i] = u
                        THEN "queued" ELSE pc[u]]
    /\ UNCHANGED <<inputs, activity,
                   usernames, max_workers, stop_event, stop_phase,
                   section, user_data, ret, locals, files, tally, done_queue,
                   progress, log, append_calls, faults>>

\* A pool thread takes the oldest queued task; the pool has max_workers
\* threads.  The task's closure first reports that it starts.
PoolHasRoomAlways(running, limit) == TRUE
PoolHasRoom(running, limit) == Cardinality(running) < limit

TaskStart(u) ==
    /\ pc[u] = "queued"
    /\ \A v \in Users : v < u => pc[v] # "queued"
    /\ PoolHasRoom(Running, max_workers)
    /\ pc' = [pc EXCEPT ![u] = "collect"]
    /\ Emit({Msg("starting", u, 0, 0)})
    /\ UNCHANGED <<inputs, activity,
                   usernames, max_workers, stop_event, stop_phase,
                   opc, section, user_data, ret, locals, files, tally,
                   done_queue, log, append_calls, faults>>

\* ----------------------------------------------------- collect_single_user
\* `if self.stop_event and self.stop_event.is_set(): return None`
StopCheckAtStartSkipped(stop) == FALSE
StopCheckAtStart(stop) == stop

\* The stop check and the identity fetch.  A None result makes the closure
\* skip the save and return None.
CollectIdentity(u) ==
    /\ pc[u] = "collect"
    /\ IF StopCheckAtStart(stop_event)
       THEN /\ FinishTask(u, None)
       ELSE /\ pc' = [pc EXCEPT ![u] = "sections"]
            /\ section' = [section EXCEPT ![u] = 1]
            /\ user_data' = [user_data EXCEPT ![u] = Some(IdentityRecord(u))]
            /\ UNCHANGED <<ret, done_queue>>
    /\ UNCHANGED <<inputs, activity,
                   usernames, max_workers, stop_event, stop_phase,
                   opc, locals, files, tally, progress, log, append_calls,
                   faults>>

\* What the outer except of collect_single_user returns.
IdentityFailurePartial(u) == Some(IdentityRecord(u))
IdentityFailure(u) == None

\* get_user raises: the outer except logs and returns None.
CollectIdentityFail(u) ==
    /\ pc[u] = "collect"
    /\ ~StopCheckAtStart(stop_event)
    /\ MayFail
    /\ faults' = faults + 1
    /\ log' = log \cup {Msg("error_collecting", u, 0, 0)}
    /\ FinishTask(u, IdentityFailure(u))
    /\ UNCHANGED <<inputs, activity,
                   usernames, max_workers, stop_event, stop_phase,
                   opc, locals, files, tally, progress, append_calls>>

\* After the last section collect_single_user returns the record; the
\* closure then either enters append_single_user_to_export or returns.
AfterSection(u, rec) ==
    IF section[u] < NumSections
    THEN /\ section' = [section EXCEPT ![u] = section[u] + 1]
         /\ user_data' = [user_data EXCEPT ![u] = Some(rec)]
         /\ UNCHANGED <<pc, ret, done_queue, append_calls>>
    ELSE IF save_immediately
         THEN /\ pc' = [pc EXCEPT ![u] = "append"]
              /\ user_data' = [user_data EXCEPT ![u] = Some(rec)]
              /\ append_calls' = append_calls + 1
              /\ UNCHANGED <<section, ret, done_queue>>
         ELSE /\ FinishTask(u, Some(rec))
              /\ UNCHANGED append_calls

FetchSection(u) ==
    /\ pc[u] = "sections"
    /\ LET key == SectionKeys[section[u]] IN
       /\ Emit({Msg(key, u, 0, 0)})
       /\ AfterSection(u, SetKey(Val(user_data[u]), key,
                                 SectionValue(u, key, stop_event)))
    /\ UNCHANGED <<inputs, activity,
                   usernames, max_workers, stop_event, stop_phase,
                   opc, locals, files, tally, log, faults>>

FetchSectionFail(u) ==
    /\ pc[u] = "sections"
    /\ MayFail
    /\ faults' = faults + 1
    /\ LET key == SectionKeys[section[u]] IN
       /\ Emit({Msg(key, u, 0, 0)})
       /\ log' = log \cup {Msg("warning_section", u, section[u], 0)}
       /\ AfterSection(u, AfterSectionFail(Val(user_data[u]), key))
    /\ UNCHANGED <<inputs, activity,
                   usernames, max_workers, stop_event, stop_phase,
                   opc, locals, files, tally>>

\* A section's call returns a result that holds a value json cannot encode
\* (an object of the API client, a set, a numpy number): the record keeps it.
FetchSectionUnserializable(u) ==
    /\ pc[u] = "sections"
    /\ MayFail
    /\ faults' = faults + 1
    /\ LET key == SectionKeys[section[u]] IN
       /\ Emit({Msg(key, u, 0, 0)})
       /\ AfterSection(u, SetKey(Val(user_data[u]), key, "object"))
    /\ UNCHANGED <<inputs, activity,
                   usernames, max_workers, stop_event, stop_phase,
                   opc, locals, files, tally, log>>

\* ------------------------------------------- append_single_user_to_export
\* Leaving append_single_user_to_export.  In a run the closure reports the
\* save and returns the record; a direct caller of the sink just goes on.
AppendReturn(u, r) ==
    /\ file_exists' = [file_exists EXCEPT ![u] = FALSE]
    /\ file_size' = [file_size EXCEPT ![u] = 0]
    /\ last_chars' = [last_chars EXCEPT ![u] = <<>>]
    /\ IF entry = "sink"
       THEN /\ pc' = [pc EXCEPT ![u] = "idle"]
            /\ user_data' = [user_data EXCEPT ![u] = None]
            /\ UNCHANGED <<ret, section, done_queue, progress>>
       ELSE /\ FinishTask(u, r)
            /\ Emit({Msg("saved", u, 0, 0)})

AppendExit(u) == AppendReturn(u, user_data[u])

\* What the closure holds after an append that raised: the except of
\* append_single_user_to_export logs and does not re-raise, so the closure
\* goes on with the record.
AfterAppendErrorDropped(r) == None
AfterAppendError(r) == r

AppendErrorExit(u) == AppendReturn(u, AfterAppendError(user_data[u]))

\* `os.path.exists(json_filename) and os.path.getsize(json_filename) > 0`
JsonCheck(u) ==
    /\ pc[u] = "append"
    /\ LET e == jsonFile.exists /\ Len(jsonFile.bytes) > 0 IN
       /\ file_exists' = [file_exists EXCEPT ![u] = e]
       /\ pc' = [pc EXCEPT ![u] = IF e THEN "json_open_rw"
                                  ELSE "json_open_w"]
    /\ UNCHANGED <<inputs, activity,
                   usernames, max_workers, stop_event, stop_phase,
                   opc, section, user_data, ret, file_size, last_chars,
                   files, tally, done_queue, progress, log, append_calls,
                   faults>>

\* open(json_filename, 'w')
JsonOpenW(u) ==
    /\ pc[u] = "json_open_w"
    /\ jsonFile' = OpenW(jsonFile)
    /\ pc' = [pc EXCEPT ![u] = "json_write_new"]
    /\ UNCHANGED <<inputs, activity,
                   usernames, max_workers, stop_event, stop_phase,
                   opc, section, user_data, ret, locals, csvFile, tally,
                   done_queue, progress, log, append_calls, faults>>

\* The three writes of the new-file branch reach the file when it closes.
JsonWriteNew(u) ==
    /\ pc[u] = "json_write_new"
    /\ ~DumpRaises(Val(user_data[u]))
    /\ jsonFile' = WriteAt(jsonFile, 0, JsonFirst(Val(user_data[u])))
    /\ pc' = [pc EXCEPT ![u] = "csv_check"]
    /\ UNCHANGED <<inputs, activity,
                   usernames, max_workers, stop_event, stop_phase,
                   opc, section, user_data, ret, locals, csvFile, tally,
                   done_queue, progress, log, append_calls, faults>>

\* open(json_filename, 'r+'), seek to the end, tell, and when the file is
\* longer than two characters read the last two.
\* if file_size > 2: only a file longer than two characters is read and
\* written; a shorter one is closed as it was found.
LongEnoughAlways(size) == TRUE
LongEnough(size) == size > 2

JsonOpenRW(u) ==
    /\ pc[u] = "json_open_rw"
    /\ LET size == Len(jsonFile.bytes) IN
       /\ file_size' = [file_size EXCEPT ![u] = size]
       /\ IF LongEnough(size)
          THEN /\ last_chars' = [last_chars EXCEPT ![u] =
                                    LastChars(jsonFile, 2)]
               /\ pc' = [pc EXCEPT ![u] = "json_write_append"]
          ELSE /\ last_chars' = last_chars
               /\ pc' = [pc EXCEPT ![u] = "csv_check"]
    /\ UNCHANGED <<inputs, activity,
                   usernames, max_workers, stop_event, stop_phase,
                   opc, section, user_data, ret, file_exists, files, tally,
                   done_queue, progress, log, append_calls, faults>>

JsonWriteAppend(u) ==
    /\ pc[u] = "json_write_append"
    /\ ~DumpRaises(Val(user_data[u]))
    /\ jsonFile' = WriteAt(jsonFile, AppendPos(file_size[u], last_chars[u]),
                           JsonNext(Val(user_data[u])))
    /\ pc' = [pc EXCEPT ![u] = "csv_check"]
    /\ UNCHANGED <<inputs, activity,
                   usernames, max_workers, stop_event, stop_phase,
                   opc, section, user_data, ret, locals, csvFile, tally,
                   done_queue, progress, log, append_calls, faults>>

\* json.dump raises the TypeError of datetime_handler: the text written so
\* far reaches the file when the `with` closes it, and the except of
\* append_single_user_to_export logs the error and returns; the CSV file is
\* not touched.
JsonEncodeFail(u) ==
    /\ pc[u] \in {"json_write_new", "json_write_append"}
    /\ DumpRaises(Val(user_data[u]))
    /\ jsonFile' =
          IF pc[u] = "json_write_new"
          THEN WriteAt(jsonFile, 0, <<Tok("["), Tok("nl")>>
                                    \o DumpPrefix(Val(user_data[u])))
          ELSE WriteAt(jsonFile, AppendPos(file_size[u], last_chars[u]),
                       <<Tok(","), Tok("nl")>>
                       \o DumpPrefix(Val(user_data[u])))
    /\ log' = log \cup {Msg("error_appending", u, 0, 0)}
    /\ AppendErrorExit(u)
    /\ UNCHANGED <<inputs, activity,
                   usernames, max_workers, stop_event, stop_phase,
                   opc, csvFile, tally, append_calls, faults>>

\* The to_csv call _append_to_csv_file makes: with the header when the file
\* does not exist, in mode 'a' without it when it does.
CsvModeAlwaysWrite(exists) == "csv_open_w"
CsvMode(exists) == IF exists THEN "csv_append" ELSE "csv_open_w"

\* `os.path.exists(csv_filename)`
CsvCheck(u) ==
    /\ pc[u] = "csv_check"
    /\ file_exists' = [file_exists EXCEPT ![u] = csvFile.exists]
    /\ pc' = [pc EXCEPT ![u] = CsvMode(csvFile.exists)]
    /\ UNCHANGED <<inputs, activity,
                   usernames, max_workers, stop_event, stop_phase,
                   opc, section, user_data, ret, file_size, last_chars,
                   files, tally, done_queue, progress, log, append_calls,
                   faults>>

\* df.to_csv(csv_filename, index=False): the file is opened for writing ...
CsvOpenW(u) ==
    /\ pc[u] = "csv_open_w"
    /\ csvFile' = OpenW(csvFile)
    /\ pc' = [pc EXCEPT ![u] = "csv_write_new"]
    /\ UNCHANGED <<inputs, activity,
                   usernames, max_workers, stop_event, stop_phase,
                   opc, section, user_data, ret, locals, jsonFile, tally,
                   done_queue, progress, log, append_calls, faults>>

\* ... and the header and the row are written from its start.
CsvWriteNew(u) ==
    /\ pc[u] = "csv_write_new"
    /\ csvFile' = WriteAt(csvFile, 0,
                          <<HeaderLine, Flatten(Val(user_data[u]))>>)
    /\ AppendExit(u)
    /\ UNCHANGED <<inputs, activity,
                   usernames, max_workers, stop_event, stop_phase,
                   opc, jsonFile, tally, log, append_calls, faults>>

\* df.to_csv(csv_filename, mode='a', header=False): the row goes to the end.
CsvAppend(u) ==
    /\ pc[u] = "csv_append"
    /\ csvFile' = WriteAt(csvFile, Len(csvFile.bytes),
                          <<Flatten(Val(user_data[u]))>>)
    /\ AppendExit(u)
    /\ UNCHANGED <<inputs, activity,
                   usernames, max_workers, stop_event, stop_phase,
                   opc, jsonFile, tally, log, append_calls, faults>>

\* A file operation raises (the JSON file cannot be opened, or the CSV file
\* cannot): the except of append_single_user_to_export logs and returns.
SinkFault(u) ==
    /\ pc[u] \in {"append", "csv_check"}
    /\ MayFail
    /\ faults' = faults + 1
    /\ log' = log \cup {Msg("error_appending", u, 0, 0)}
    /\ AppendErrorExit(u)
    /\ UNCHANGED <<inputs, activity,
                   usernames, max_workers, stop_event, stop_phase,
                   opc, files, tally, append_calls>>

\* ------------------------------------------------------- the gather loop
\* as_completed starts: the futures already finished are yielded first.
AsCompletedEnter ==
    /\ opc = "submitted"
    /\ opc' = "gathering"
    /\ first_batch' = {u \in Users : pc[u] = "finished"}
    /\ UNCHANGED <<inputs, activity,
                   usernames, max_workers, stop_event, stop_phase,
                   pc, section, user_data, ret, locals, files, results,
                   successful_count, failed_count, done_queue, progress, log,
                   append_calls, faults>>

\* as_completed yields the futures already finished, then every other one
\* as it finishes.
NextYieldedFinishedOnly(u) == u \in first_batch
NextYielded(u) ==
    \/ u \in first_batch
    \/ first_batch = {} /\ done_queue # <<>> /\ Head(done_queue) = u

\* `failed_count += 1`
TallyFailureDropped(n) == n
TallyFailure(n) == n + 1

\* One iteration of `for future in as_completed(...)`.
GatherOne(u) ==
    /\ opc = "gathering"
    /\ pc[u] = "finished"
    /\ NextYielded(u)
    /\ pc' = [pc EXCEPT ![u] = "processed"]
    /\ first_batch' = first_batch \ {u}
    /\ done_queue' = IF u \in first_batch THEN done_queue
                     ELSE Tail(done_queue)
    /\ IF ~IsNone(ret[u])
       THEN /\ results' = Append(results, Val(ret[u]))
            /\ successful_count' = successful_count + 1
            /\ failed_count' = failed_count
            /\ Emit({Msg("completed", u, successful_count + 1,
                         failed_count)})
       ELSE /\ results' = results
            /\ successful_count' = successful_count
            /\ failed_count' = TallyFailure(failed_count)
            /\ Emit({Msg("failed", u, successful_count,
                         TallyFailure(failed_count))})
    /\ UNCHANGED <<inputs, activity,
                   usernames, max_workers, stop_event, stop_phase,
                   opc, section, user_data, ret, locals, files, log,
                   append_calls, faults>>

\* Every future has been yielded: the pool shuts down, the summary is
\* reported and the list is returned.
RunReturn ==
    /\ opc = "gathering"
    /\ \A i \in 1..Len(usernames) : pc[usernames[i]] = "processed"
    /\ opc' = "returned"
    /\ IF save_immediately
       THEN Emit({Msg("summary", 0, successful_count, Len(usernames))})
       ELSE UNCHANGED progress
    /\ UNCHANGED <<inputs, activity,
                   usernames, max_workers, stop_event, stop_phase,
                   pc, section, user_data, ret, locals, files, tally,
                   done_queue, log, append_calls, faults>>

\* -------------------------------------------------------- specification
Next ==
    \/ SetStop
    \/ MineValidate
    \/ MineFetch
    \/ MineFetchFail
    \/ MineReturn
    \/ Dispatch
    \/ AsCompletedEnter
    \/ RunReturn
    \/ \E u \in Users :
        \/ TaskStart(u)
        \/ CollectIdentity(u)
        \/ CollectIdentityFail(u)
        \/ FetchSection(u)
        \/ FetchSectionFail(u)
        \/ FetchSectionUnserializable(u)
        \/ JsonCheck(u)
        \/ JsonOpenW(u)
        \/ JsonWriteNew(u)
        \/ JsonOpenRW(u)
        \/ JsonWriteAppend(u)
        \/ CsvCheck(u)
        \/ CsvOpenW(u)
        \/ CsvWriteNew(u)
        \/ CsvAppend(u)
        \/ SinkFault(u)
        \/ JsonEncodeFail(u)
        \/ GatherOne(u)

Spec == Init /\ [][Next]_vars

\* The same run when every remote call and every file operation eventually
\* returns and every thread is eventually scheduled: a step of the program
\* that stays possible is eventually taken.  Nothing is assumed about the
\* stop event, which may be set at any time or never.
SpecLive == Init /\ [][Next]_vars /\ WF_vars(Next /\ UNCHANGED stop_event)

\* ------------------------------------------- a sequential sink session
\* A caller that invokes append_single_user_to_export directly, one call
\* after the other, on a JSON file that is one of `found` at first.
SinkStart(found) ==
    /\ entry = "sink"
    /\ contributors = <<>>
    /\ usernames = <<>>
    /\ max_workers = 0
    /\ save_immediately = TRUE
    /\ filename = "t"
    /\ progress_callback = TRUE
    /\ stop_event = FALSE
    /\ stop_phase = "never"
    /\ opc = "sink"
    /\ pc = [u \in Users |-> "idle"]
    /\ section = [u \in Users |-> 0]
    /\ user_data = [u \in Users |-> None]
    /\ ret = [u \in Users |-> None]
    /\ file_exists = [u \in Users |-> FALSE]
    /\ file_size = [u \in Users |-> 0]
    /\ last_chars = [u \in Users |-> <<>>]
    /\ jsonFile \in found
    /\ csvFile = AbsentFile
    /\ results = <<>>
    /\ successful_count = 0
    /\ failed_count = 0
    /\ first_batch = {}
    /\ done_queue = <<>>
    /\ progress = {}
    /\ log = {}
    /\ append_calls = 0
    /\ faults = 0
    /\ ResolverIdle

\* The records a caller may hand to the sink for user u: complete, with one
\* section defaulted, or with a value json cannot encode in one section.
SinkRecords(u) ==
    {FullRecord(u)} \cup
    {AfterSectionFail(FullRecord(u), SectionKeys[i]) : i \in {1, 3}} \cup
    {SetKey(FullRecord(u), SectionKeys[2], "object")}

SinkCall(u) ==
    /\ entry = "sink"
    /\ \A v \in Users : pc[v] = "idle"
    /\ append_calls < MaxAppends
    /\ append_calls' = append_calls + 1
    /\ \E rec \in SinkRecords(u) :
        /\ user_data' = [user_data EXCEPT ![u] = Some(rec)]
        /\ IF DumpRaises(rec)
           THEN MayFail /\ faults' = faults + 1
           ELSE faults' = faults
    /\ pc' = [pc EXCEPT ![u] = "append"]
    /\ UNCHANGED <<inputs, activity,
                   usernames, max_workers, stop_event, stop_phase,
                   opc, section, ret, locals, files, tally, done_queue,
                   progress, log>>

NextSink ==
    \E u \in Users :
        \/ SinkCall(u)
        \/ JsonCheck(u)
        \/ JsonOpenW(u)
        \/ JsonWriteNew(u)
        \/ JsonOpenRW(u)
        \/ JsonWriteAppend(u)
        \/ CsvCheck(u)
        \/ CsvOpenW(u)
        \/ CsvWriteNew(u)
        \/ CsvAppend(u)
        \/ SinkFault(u)
        \/ JsonEncodeFail(u)

\* The session on a JSON file that is absent or empty at first.
InitSink == SinkStart({AbsentFile, EmptyFile})

SpecSink == InitSink /\ [][NextSink]_vars

\* The session on a file left by an earlier session: none, a valid array of
\* one record, that array without its closing bracket (with and without
\* the newline before it), the two-character array "[]", a lone "[".
ArrayOfOne == JsonFirst(FullRecord(1))
LeftJsonFiles ==
    {AbsentFile} \cup
    {[exists |-> TRUE, bytes |-> b] :
        b \in {ArrayOfOne,
               SubSeq(ArrayOfOne, 1, Len(ArrayOfOne) - 1),
               SubSeq(ArrayOfOne, 1, Len(ArrayOfOne) - 2),
               <<Tok("["), Tok("]")>>,
               <<Tok("[")>>}}

InitSinkLeft == SinkStart(LeftJsonFiles)

SpecSinkLeft == InitSinkLeft /\ [][NextSink]_vars

\* ------------------------------------------------ analyze_commit_activity
\* One call of analyze_commit_activity, followed statement by statement.
\* The account lists up to NumRepos repositories of any kind.
pipeline == <<inputs, usernames, max_workers, opc, pc, section, user_data,
              ret, locals, files, tally, done_queue, progress, append_calls>>

\* A listing with more original repositories than either scan limit, and a
\* fork among them.
LongListing ==
    [i \in 1..(RepoLimitAll + 2) |->
        Repo(i, IF i = 2 THEN "fork" ELSE "empty")]

InitResolve ==
    /\ entry = "resolve"
    /\ contributors = <<>>
    /\ usernames = <<>>
    /\ max_workers = 0
    /\ save_immediately = FALSE
    /\ filename = ""
    /\ progress_callback = FALSE
    /\ stop_event = FALSE
    /\ stop_phase = "never"
    /\ opc = "resolve"
    /\ pc = [u \in Users |-> "idle"]
    /\ section = [u \in Users |-> 0]
    /\ user_data = [u \in Users |-> None]
    /\ ret = [u \in Users |-> None]
    /\ file_exists = [u \in Users |-> FALSE]
    /\ file_size = [u \in Users |-> 0]
    /\ last_chars = [u \in Users |-> <<>>]
    /\ jsonFile = AbsentFile
    /\ csvFile = AbsentFile
    /\ results = <<>>
    /\ successful_count = 0
    /\ failed_count = 0
    /\ first_batch = {}
    /\ done_queue = <<>>
    /\ progress = {}
    /\ log = {}
    /\ append_calls = 0
    /\ faults = 0
    /\ target \in {"", "u"}
    /\ fetch_all_commits \in BOOLEAN
    /\ \/ \E n \in 0..NumRepos : \E f \in [1..n -> RepoKinds] :
             repos = [i \in 1..n |-> Repo(i, f[i])]
       \/ repos = LongListing
    /\ tried = [i \in 1..Len(repos) |-> <<>>]
    /\ rpc = "call"
    /\ activity_data = DefaultSummary(FALSE)
    /\ original_repos = <<>>
    /\ repo_idx = 0
    /\ strategy = 0
    /\ commits = <<>>
    /\ commit_idx = 0
    /\ repo_commits = 0
    /\ repo_commit_counts = <<>>
    /\ summary = None

\* The failures injected into one call: fewer on the long listing.
MayFailQuery ==
    faults < (IF repos = LongListing THEN MaxLongFaults ELSE MaxQueryFaults)

\* The stop event is set from outside at any time of the call: before it
\* starts, between two repositories, or while the queries and the commit
\* loop of a repository are running.
StopWhileAnalyzing ==
    /\ rpc \in {"call", "repo_begin", "strategy", "commits"}
    /\ ~stop_event
    /\ stop_event' = TRUE
    /\ stop_phase' = IF rpc = "call" THEN "before"
                     ELSE IF rpc = "repo_begin" THEN "during"
                     ELSE "in_flight"
    /\ UNCHANGED <<pipeline, activity, log, faults>>

\* [repo for repo in repos if not repo.fork]
OriginalRepos(rs) ==
    LET o == SelectSeq(rs, LAMBDA r : ~r.fork)
    IN [i \in 1..Len(o) |-> o[i].name]

\* The argument check, the stop check, the lookup and the listing, and the
\* early return for an account without original repositories.
AnalyzeStart ==
    /\ rpc = "call"
    /\ IF target = ""
       THEN /\ rpc' = "raised"
            /\ UNCHANGED <<activity_data, original_repos, repo_idx, summary>>
       ELSE IF stop_event
       THEN /\ rpc' = "returned"
            /\ summary' = Some(DefaultSummary(fetch_all_commits))
            /\ UNCHANGED <<activity_data, original_repos, repo_idx>>
       ELSE /\ activity_data' = InitialActivity(fetch_all_commits, repos)
            /\ original_repos' = OriginalRepos(repos)
            /\ IF original_repos' = <<>>
               THEN /\ rpc' = "returned"
                    /\ summary' = Some(activity_data')
                    /\ repo_idx' = repo_idx
               ELSE /\ rpc' = "repo_begin"
                    /\ summary' = summary
                    /\ repo_idx' = 1
    /\ UNCHANGED <<pipeline, stop_event, stop_phase, log, faults, target,
                   fetch_all_commits, repos, strategy, tried, commits,
                   commit_idx, repo_commits, repo_commit_counts>>

\* get_user or get_repos raises.  The except of the function catches
\* GithubException only; anything else leaves the function.
LookupFail(kind) ==
    /\ rpc = "call"
    /\ target # ""
    /\ ~stop_event
    /\ MayFailQuery
    /\ faults' = faults + 1
    /\ IF kind = "github"
       THEN /\ rpc' = "returned"
            /\ summary' = Some(DefaultSummary(fetch_all_commits))
            /\ log' = log \cup {Msg("error_analyzing", 0, 0, 0)}
       ELSE /\ rpc' = "raised"
            /\ UNCHANGED <<summary, log>>
    /\ UNCHANGED <<pipeline, stop_event, stop_phase, target,
                   fetch_all_commits, repos, activity_data, original_repos,
                   repo_idx, strategy, tried, commits, commit_idx,
                   repo_commits, repo_commit_counts>>

\* original_repos[:repo_limit]
ScanLengthUncapped == Len(original_repos)
ScanLength ==
    IF Len(original_repos) < RepoLimit(fetch_all_commits)
    THEN Len(original_repos) ELSE RepoLimit(fetch_all_commits)

CurrentRepo == original_repos[repo_idx]

\* `if self.stop_event and self.stop_event.is_set(): break` at the head of
\* the loop body.
LoopStopCheckSkipped(stop) == FALSE
LoopStopCheck(stop) == stop

\* The head of the loop body: the stop check and the count of the
\* repository as analyzed.
RepoBegin ==
    /\ rpc = "repo_begin"
    /\ repo_idx <= ScanLength
    /\ ~LoopStopCheck(stop_event)
    /\ activity_data' =
          [activity_data EXCEPT !.repositories_analyzed = @ + 1]
    /\ strategy' = 1
    /\ rpc' = "strategy"
    /\ UNCHANGED <<pipeline, stop_event, stop_phase, log, faults, target,
                   fetch_all_commits, repos, original_repos, repo_idx, tried,
                   commits, commit_idx, repo_commits, repo_commit_counts,
                   summary>>

\* `continue`, or the end of the loop body.
NextRepo ==
    /\ repo_idx' = repo_idx + 1
    /\ rpc' = "repo_begin"
    /\ strategy' = 0
    /\ commits' = <<>>
    /\ commit_idx' = 0
    /\ repo_commits' = 0

\* The method returns its list: the chain ends and the commit loop starts.
StrategyOk ==
    /\ rpc = "strategy"
    /\ commits' = Method(fetch_all_commits, strategy,
                         HistoryOf(repos[CurrentRepo].kind))
    /\ tried' = [tried EXCEPT ![CurrentRepo] =
                    Append(@, [k |-> strategy, outcome |-> "ok"])]
    /\ rpc' = "commits"
    /\ commit_idx' = 1
    /\ repo_commits' = 0
    /\ UNCHANGED <<pipeline, stop_event, stop_phase, log, faults, target,
                   fetch_all_commits, repos, activity_data, original_repos,
                   repo_idx, strategy, repo_commit_counts, summary>>

\* `continue` after the last method failed: the assignment to
\* repo_commit_counts at the end of the loop body is not reached.
CountsAfterSkipZero(counts, name) == Append(counts, <<name, 0>>)
CountsAfterSkip(counts, name) == counts

\* The method raises.  A GithubException is logged as a warning and leads to
\* the next method, or to `continue` after the last one; any other exception
\* reaches the except of the loop body, which logs an error and continues.
StrategyFail(kind) ==
    /\ rpc = "strategy"
    /\ MayFailQuery
    /\ faults' = faults + 1
    /\ tried' = [tried EXCEPT ![CurrentRepo] =
                    Append(@, [k |-> strategy, outcome |-> kind])]
    /\ log' = log \cup {Msg(IF kind = "github" THEN "method_failed"
                            ELSE "error_repository",
                            CurrentRepo, strategy, 0)}
    /\ IF Escalates(kind) /\ strategy < ChainLength(fetch_all_commits)
       THEN /\ strategy' = strategy + 1
            /\ UNCHANGED <<rpc, repo_idx, commits, commit_idx, repo_commits,
                           repo_commit_counts>>
       ELSE /\ NextRepo
            /\ repo_commit_counts' =
                  CountsAfterSkip(repo_commit_counts, CurrentRepo)
    /\ UNCHANGED <<pipeline, stop_event, stop_phase, target,
                   fetch_all_commits, repos, activity_data, original_repos,
                   summary>>

\* One iteration of `for commit in commits`.
ProcessCommit ==
    /\ rpc = "commits"
    /\ commit_idx <= Len(commits)
    /\ activity_data' = CountCommit(activity_data, commits[commit_idx],
                                    CurrentRepo, fetch_all_commits, TRUE)
    /\ repo_commits' = repo_commits + 1
    /\ commit_idx' = commit_idx + 1
    /\ UNCHANGED <<pipeline, stop_event, stop_phase, log, faults, target,
                   fetch_all_commits, repos, rpc, original_repos, repo_idx,
                   strategy, tried, commits, repo_commit_counts, summary>>

\* One iteration in which reading commit.stats raises: the except of the
\* commit body logs a warning and goes on with the next commit.  The first
\* remote failure of a call may be of this kind.
ProcessCommitStatsFail ==
    /\ rpc = "commits"
    /\ commit_idx <= Len(commits)
    /\ commits[commit_idx].recent
    /\ UnderCap(Len(activity_data.recent_commits))
    /\ faults = 0
    /\ faults' = faults + 1
    /\ log' = log \cup {Msg("error_commit", CurrentRepo, 0, 0)}
    /\ activity_data' = CountCommit(activity_data, commits[commit_idx],
                                    CurrentRepo, fetch_all_commits, FALSE)
    /\ repo_commits' = repo_commits + 1
    /\ commit_idx' = commit_idx + 1
    /\ UNCHANGED <<pipeline, stop_event, stop_phase, target,
                   fetch_all_commits, repos, rpc, original_repos, repo_idx,
                   strategy, tried, commits, repo_commit_counts, summary>>

\* repo_commit_counts[repo.name] = repo_commits
RepoDone ==
    /\ rpc = "commits"
    /\ commit_idx > Len(commits)
    /\ repo_commit_counts' =
          Append(repo_commit_counts, <<CurrentRepo, repo_commits>>)
    /\ NextRepo
    /\ UNCHANGED <<pipeline, stop_event, stop_phase, log, faults, target,
                   fetch_all_commits, repos, activity_data, original_repos,
                   tried, summary>>

\* The loop is over, or left by `break`: the closing statements and the
\* return.
AnalyzeReturn ==
    /\ rpc = "repo_begin"
    /\ repo_idx > ScanLength \/ LoopStopCheck(stop_event)
    /\ activity_data' = Finalized(activity_data, repo_commit_counts)
    /\ summary' = Some(activity_data')
    /\ rpc' = "returned"
    /\ UNCHANGED <<pipeline, stop_event, stop_phase, log, faults, target,
                   fetch_all_commits, repos, original_repos, repo_idx,
                   strategy, tried, commits, commit_idx, repo_commits,
                   repo_commit_counts>>

FaultKinds == {"github", "other"}

NextResolve ==
    \/ StopWhileAnalyzing
    \/ AnalyzeStart
    \/ \E kind \in FaultKinds : LookupFail(kind)
    \/ RepoBegin
    \/ StrategyOk
    \/ \E kind \in FaultKinds : StrategyFail(kind)
    \/ ProcessCommit
    \/ ProcessCommitStatsFail
    \/ RepoDone
    \/ AnalyzeReturn

SpecResolve == InitResolve /\ [][NextResolve]_vars

\* ============================================================== properties
Submitted == {usernames[i] : i \in 1..Len(usernames)}

\* The array a reader gets from the JSON file; an absent or empty file holds
\* no record.
Records(f) ==
    IF ~f.exists \/ f.bytes = <<>> THEN [ok |-> TRUE, items |-> <<>>]
    ELSE ParseJson(f.bytes)

CountIn(seq, u) ==
    Cardinality({i \in 1..Len(seq) : seq[i]["username"] = u})

CsvRows(u) ==
    Cardinality({i \in 1..Len(csvFile.bytes) : csvFile.bytes[i] = RowLine(u)})

\* Between the existence check of an append and the end of its write.
InJsonAppend(u) ==
    pc[u] \in {"json_open_w", "json_write_new", "json_open_rw",
               "json_write_append"}
InCsvAppend(u) == pc[u] \in {"csv_open_w", "csv_write_new", "csv_append"}

\* C1: a call that asks for immediate saving without a filename raises the
\* validation error before anything else happens: no task is ever submitted,
\* no message is reported, no file is touched; and nothing else makes
\* parallel_data_collection or the validation of
\* mine_repository_contributors raise.
C1_ValidationFailsFast ==
    /\ (save_immediately /\ filename = "") =>
          /\ opc \in {"call", "raised", "mine_call", "mine_raised"}
          /\ \A u \in Users : pc[u] = "unsubmitted" /\ IsNone(user_data[u])
          /\ progress = {}
          /\ ~jsonFile.exists /\ ~csvFile.exists
          /\ results = <<>> /\ append_calls = 0
    /\ opc \in {"raised", "mine_raised"} => (save_immediately /\ filename = "")

C1_Witness ==
    opc = "raised" /\ save_immediately /\ filename = ""

\* C2: when run has returned after every entity was collected and saved
\* without an error, the JSON file is an array of exactly N records and the
\* CSV file has N + 1 lines.
C2_ExactlyNRecords ==
    (/\ opc = "returned"
     /\ save_immediately
     /\ log = {}
     /\ \A u \in Submitted : ~IsNone(ret[u]))
    => /\ Records(jsonFile).ok
       /\ Len(Records(jsonFile).items) = Len(usernames)
       /\ Len(csvFile.bytes) = Len(usernames) + 1

\* C3: no two tasks are inside an append to the same sink file at once.
C3_SinkMutualExclusion ==
    \A u, v \in Users :
        u # v => /\ ~(InJsonAppend(u) /\ InJsonAppend(v))
                 /\ ~(InCsvAppend(u) /\ InCsvAppend(v))

\* C4: the array read from the JSON file changes only when an append writes
\* its record, and then it is the array before plus exactly that record.
C4_AppendRoundTrip ==
    [][\/ Records(jsonFile') = Records(jsonFile)
       \/ \E u \in Users :
            /\ pc[u] \in {"json_write_new", "json_write_append"}
            /\ pc'[u] = "csv_check"
            /\ Records(jsonFile).ok
            /\ Records(jsonFile') =
                 [ok |-> TRUE,
                  items |-> Append(Records(jsonFile).items,
                                   JsonImage(Val(user_data[u])))]]_vars

\* C5: in a sequential session on a file that was absent or empty, whenever
\* no append is writing and none has failed, the JSON file is a valid array
\* holding one element per append made; the first append writes "[", the
\* record, "]" and every later one turns the closing "]" into ",", the
\* record, "]", which adds the record at the end of the array.
JsonAppendsDone ==
    append_calls - Cardinality({u \in Users : pc[u] = "append"
                                              \/ InJsonAppend(u)})

C5_FileValidBetweenAppends ==
    (log = {} /\ \A u \in Users : ~InJsonAppend(u))
    => /\ Records(jsonFile).ok
       /\ Len(Records(jsonFile).items) = JsonAppendsDone
       /\ JsonAppendsDone >= 1 => ParseJson(jsonFile.bytes).ok

C5_AppendStep ==
    \A u \in Users :
        /\ (pc[u] = "json_write_new" /\ pc'[u] = "csv_check")
           => jsonFile'.bytes = JsonFirst(Val(user_data[u]))
        /\ (log = {} /\ pc[u] = "json_write_append" /\ pc'[u] = "csv_check")
           => /\ jsonFile'.bytes =
                    SubSeq(jsonFile.bytes, 1, Len(jsonFile.bytes) - 2)
                    \o JsonNext(Val(user_data[u]))
              /\ jsonFile.bytes[Len(jsonFile.bytes)] = Tok("]")
              /\ ParseJson(jsonFile'.bytes) =
                    [ok |-> TRUE,
                     items |-> Append(ParseJson(jsonFile.bytes).items,
                                      JsonImage(Val(user_data[u])))]

C5_SequentialAppends ==
    [](C5_FileValidBetweenAppends) /\ [][C5_AppendStep]_vars

C5_Witness ==
    /\ entry = "sink"
    /\ log = {}
    /\ append_calls = MaxAppends
    /\ \A u \in Users : pc[u] = "idle"
    /\ Len(ParseJson(jsonFile.bytes).items) = MaxAppends

\* C6: when an immediate-mode run has returned, every submitted entity is
\* either in neither the result list nor the sink files, or exactly once in
\* the result list, the JSON array and the CSV rows.
C6_ResultIffSink ==
    (opc = "returned" /\ save_immediately)
    => /\ Records(jsonFile).ok
       /\ \A u \in Submitted :
            /\ CountIn(results, u) <= 1
            /\ CountIn(Records(jsonFile).items, u) = CountIn(results, u)
            /\ CsvRows(u) = CountIn(results, u)

\* C7: no record with a section cut short by the stop event is returned by a
\* task, added to the result list or written to the JSON file.
HasCutSection(rec) ==
    \E k \in SectionKeySet : k \in DOMAIN rec /\ rec[k] = "cut"

C7_NoCutRecordSurfaced ==
    /\ \A u \in Users : ~IsNone(ret[u]) => ~HasCutSection(Val(ret[u]))
    /\ \A i \in 1..Len(results) : ~HasCutSection(results[i])
    /\ \A i \in 1..Len(Records(jsonFile).items) :
          ~HasCutSection(Records(jsonFile).items[i])

\* C8: when the stop event is set before parallel_data_collection starts,
\* the run collects nothing: the result list stays empty, the sink is never
\* called and no file appears, and at the return every entity has been
\* tallied as a failure.
C8_StopBeforeRun ==
    stop_phase = "before"
    => /\ results = <<>> /\ successful_count = 0
       /\ append_calls = 0
       /\ ~jsonFile.exists /\ ~csvFile.exists
       /\ \A u \in Users : IsNone(ret[u]) /\ IsNone(user_data[u])
       /\ opc = "returned" => failed_count = Len(usernames)

C8_Witness ==
    /\ stop_phase = "before"
    /\ opc = "returned"
    /\ failed_count = NumUsers
    /\ results = <<>>

\* C9: every record a task returns, and every record in the result list, has
\* all twelve keys, whichever section fetches failed.
C9_FixedSchema ==
    /\ \A u \in Users : ~IsNone(ret[u]) => DOMAIN Val(ret[u]) = AllKeys
    /\ \A i \in 1..Len(results) : DOMAIN results[i] = AllKeys

C9_Witness ==
    \E i \in 1..Len(results) :
        \E k \in SectionKeySet : results[i][k] = "default"

\* C10: run raises only the validation error; when it returns every
\* submitted entity has been processed, and every entity whose collection or
\* save raised is tallied as a failure and is not in the result list.
Failing(u) ==
    \/ Msg("error_collecting", u, 0, 0) \in log
    \/ Msg("error_appending", u, 0, 0) \in log

C10_TaskExceptionIsolated ==
    /\ opc = "raised" => (save_immediately /\ filename = "")
    /\ opc = "returned" =>
          /\ \A u \in Submitted : pc[u] = "processed"
          /\ successful_count + failed_count = Len(usernames)
          /\ \A u \in Submitted : Failing(u) => CountIn(results, u) = 0
          /\ failed_count >= Cardinality({u \in Submitted : Failing(u)})

\* C11: throughout a run successful_count + failed_count is the number of
\* futures the gather loop has processed, the result list has exactly
\* successful_count elements and each is the non-null record its task
\* returned; when the run has returned the two counters add up to the number
\* of usernames submitted.
Processed == {u \in Users : pc[u] = "processed"}

C11_TallyConsistent ==
    /\ successful_count + failed_count = Cardinality(Processed)
    /\ Len(results) = successful_count
    /\ \A i \in 1..Len(results) :
          \E u \in Processed : ~IsNone(ret[u]) /\ results[i] = Val(ret[u])
    /\ opc \in {"returned", "mine_returned"} =>
          successful_count + failed_count = Len(usernames)

C11_Witness ==
    /\ opc = "returned"
    /\ successful_count >= 1
    /\ failed_count >= 1
    /\ successful_count + failed_count = NumUsers

\* C12: an entity whose identity fetch raised gets no section fetch, its task
\* returns None, it is in neither the result list nor the two sink files,
\* and once processed it is tallied and reported as a failure.
IdentityFailed(u) == Msg("error_collecting", u, 0, 0) \in log

InJsonBytes(u) ==
    \E i \in 1..Len(jsonFile.bytes) :
        jsonFile.bytes[i] = FieldTok("username", "str", u)

C12_IdentityFailureDropsEntity ==
    /\ \A u \in Users : IdentityFailed(u) =>
          /\ pc[u] \in {"finished", "processed"}
          /\ IsNone(ret[u]) /\ IsNone(user_data[u]) /\ section[u] = 0
          /\ \A k \in SectionKeySet : Msg(k, u, 0, 0) \notin progress
          /\ Msg("saved", u, 0, 0) \notin progress
          /\ CountIn(results, u) = 0
          /\ ~InJsonBytes(u)
          /\ CsvRows(u) = 0
          /\ \A a, b \in 0..NumUsers : Msg("completed", u, a, b) \notin progress
          /\ (pc[u] = "processed" /\ progress_callback) =>
                \E a, b \in 0..NumUsers : Msg("failed", u, a, b) \in progress
    /\ failed_count >= Cardinality({u \in Processed : IdentityFailed(u)})

C12_Witness ==
    /\ opc = "returned"
    /\ save_immediately
    /\ \E u \in Users : IdentityFailed(u)
    /\ Len(results) = NumUsers - 1
    /\ jsonFile.exists

\* C18: no more than max_workers tasks are ever being executed; a task is at
\* one place of collect_single_user at a time, so no more than max_workers
\* remote calls of entity tasks are in flight.
InFlight == {u \in Users : pc[u] \in {"collect", "sections"}}

C18_AtMostMaxWorkersRunning ==
    /\ Cardinality(Running) <= max_workers
    /\ InFlight \subseteq Running
    /\ Cardinality(InFlight) <= max_workers

C18_Witness ==
    /\ Cardinality(Running) = max_workers
    /\ Cardinality(InFlight) = max_workers
    /\ \E u \in Users : pc[u] = "queued"

\* C19: when an immediate-mode run has returned without any logged error,
\* any two entities present in the result list, the JSON array and the CSV
\* rows are in the same relative order in all three.
PosIn(seq, u) == CHOOSE i \in 1..Len(seq) : seq[i]["username"] = u
CsvPos(u) == CHOOSE i \in 1..Len(csvFile.bytes) : csvFile.bytes[i] = RowLine(u)

C19_SameRelativeOrder ==
    (opc = "returned" /\ save_immediately /\ log = {}
        /\ Records(jsonFile).ok)
    => \A u, v \in Submitted :
          (/\ u # v
           /\ CountIn(results, u) = 1 /\ CountIn(results, v) = 1
           /\ CountIn(Records(jsonFile).items, u) = 1
           /\ CountIn(Records(jsonFile).items, v) = 1
           /\ CsvRows(u) = 1 /\ CsvRows(v) = 1)
          => /\ (PosIn(results, u) < PosIn(results, v))
                <=> (PosIn(Records(jsonFile).items, u)
                        < PosIn(Records(jsonFile).items, v))
             /\ (PosIn(results, u) < PosIn(results, v))
                <=> (CsvPos(u) < CsvPos(v))

\* C20: a run with a progress callback has reported the summary with its
\* final successful_count and the number of usernames when it returns, and
\* the summary is never reported before every future has been processed.
C20_TerminalSummary ==
    /\ (opc = "returned" /\ progress_callback)
       => Msg("summary", 0, successful_count, Len(usernames)) \in progress
    /\ \A a, b \in 0..NumUsers :
          Msg("summary", 0, a, b) \in progress
          => /\ \A u \in Submitted : pc[u] = "processed"
             /\ a = successful_count /\ b = Len(usernames)

\* ------------------------------------------- analyze_commit_activity claims
OnlyForks == \A i \in 1..Len(repos) : repos[i].fork

\* The method whose list was aggregated for repository r, 0 when none was.
MethodUsed(r) ==
    IF tried[r] # <<>> /\ tried[r][Len(tried[r])].outcome = "ok"
    THEN Len(tried[r]) ELSE 0

Retrieved(r) ==
    Method(fetch_all_commits, MethodUsed(r), HistoryOf(repos[r].kind))

RECURSIVE SumCounts(_)
SumCounts(counts) ==
    IF counts = <<>> THEN 0 ELSE Head(counts)[2] + SumCounts(Tail(counts))

RECURSIVE SumOver(_, _)
SumOver(d, keys) ==
    IF keys = {} THEN 0
    ELSE LET x == CHOOSE x \in keys : TRUE
         IN d[x] + SumOver(d, keys \ {x})

InAnalysis == rpc \in {"repo_begin", "strategy", "commits", "returned"}

\* C13: called with a non-empty username, analyze_commit_activity never
\* raises, and when the lookup or the listing failed it has returned the
\* default summary.
C13_ResolveNeverRaises ==
    target # "" =>
       /\ rpc # "raised"
       /\ (rpc = "returned" /\ Msg("error_analyzing", 0, 0, 0) \in log)
          => summary = Some(DefaultSummary(fetch_all_commits))

\* The half of C14 that concerns analyze_commit_activity alone, which holds
\* in every call: an account listing no repository, or forks only, gets no
\* commit query, and a call that returns hands back the summary with
\* total_repositories 0, repositories_analyzed 0, every counter 0, empty
\* collections and no most active repository.
NoQueryZeroSummary ==
    (entry = "resolve" /\ target # "" /\ OnlyForks) =>
       /\ \A i \in 1..Len(tried) : tried[i] = <<>>
       /\ rpc \in {"call", "returned", "raised"}
       /\ rpc = "returned"
          => summary = Some(DefaultSummary(fetch_all_commits))

\* C14: an account without original repositories gets the zero summary as
\* its commit activity, and when the immediate-mode run has returned without
\* a logged error its record is in the result list, in the JSON array and
\* in the CSV rows.
C14_ZeroRepoEntityPresent ==
    (opc = "returned" /\ save_immediately /\ log = {})
    => \A u \in Submitted :
          (NoOriginalRepos(u) /\ ~IsNone(ret[u]))
          => /\ Val(ret[u])["commit_activity"] \in {"zero_summary", "cut"}
             /\ CountIn(results, u) = 1
             /\ Records(jsonFile).ok
             /\ CountIn(Records(jsonFile).items, u) = 1
             /\ CsvRows(u) = 1

\* C15: for every repository the methods tried are 1, 2, ... in order, never
\* more than the chain of the mode has; a method is followed by the next one
\* only if it raised a GithubException, and one that raised a GithubException
\* before the end of the chain is followed by the next; a method that
\* returns, with whatever list, ends the chain, and its list is the one the
\* commit loop counts.
C15_EscalationOnlyOnQueryError ==
    \A r \in 1..Len(tried) :
        LET t == tried[r] IN
        /\ Len(t) <= ChainLength(fetch_all_commits)
        /\ \A i \in 1..Len(t) : t[i].k = i
        /\ \A i \in 1..(Len(t) - 1) : t[i].outcome = "github"
        /\ (/\ t # <<>>
            /\ t[Len(t)].outcome = "github"
            /\ Len(t) < ChainLength(fetch_all_commits))
           => /\ rpc = "strategy"
              /\ CurrentRepo = r
              /\ strategy = Len(t) + 1
        /\ MethodUsed(r) > 0
           => /\ ~(rpc = "strategy" /\ CurrentRepo = r)
              /\ (rpc = "commits" /\ CurrentRepo = r)
                 => commits = Retrieved(r)
              /\ ~(rpc = "commits" /\ CurrentRepo = r)
                 => \E j \in 1..Len(repo_commit_counts) :
                       repo_commit_counts[j] = <<r, Len(Retrieved(r))>>

C15_Witness ==
    /\ rpc = "returned"
    /\ ~fetch_all_commits
    /\ \E r \in 1..Len(tried) :
          /\ tried[r] = <<[k |-> 1, outcome |-> "github"],
                          [k |-> 2, outcome |-> "ok"]>>
          /\ \E j \in 1..Len(repo_commit_counts) :
                /\ repo_commit_counts[j][1] = r
                /\ repo_commit_counts[j][2] >= 1

\* C16: when every commit is counted, the detail list never holds more than
\* 50 entries and total_recent_commits never exceeds total_commits, while
\* total_commits is the number of commits counted so far: the whole list of
\* every repository done plus the part of the current list already seen.
C16_CapAndTotals ==
    (fetch_all_commits /\ InAnalysis) =>
       /\ Len(activity_data.recent_commits) <= RecentCommitsCap
       /\ activity_data.total_recent_commits <= activity_data.total_commits
       /\ activity_data.total_commits
             = SumCounts(repo_commit_counts) + repo_commits
       /\ rpc = "commits" => repo_commits = commit_idx - 1
       /\ \A j \in 1..Len(repo_commit_counts) :
             repo_commit_counts[j][2]
                = Len(ByAuthor(HistoryOf(
                        repos[repo_commit_counts[j][1]].kind)))
       /\ (rpc = "returned" /\ ~IsNone(summary)) =>
             /\ Len(Val(summary).recent_commits) <= RecentCommitsCap
             /\ Val(summary).total_recent_commits
                   <= Val(summary).total_commits

C16_Witness ==
    /\ rpc = "returned"
    /\ fetch_all_commits
    /\ ~IsNone(summary)
    /\ Val(summary).total_commits > RecentCommitsCap
    /\ Len(Val(summary).recent_commits) = RecentCommitsCap
    /\ Val(summary).total_recent_commits > RecentCommitsCap
    /\ Val(summary).total_recent_commits < Val(summary).total_commits

\* C17: in the returned summary the counts by day and the counts by hour
\* each add up to total_recent_commits, and active_days holds the day of
\* every commit inside the window that was counted.
DaysInWindow ==
    UNION {{Retrieved(r)[i].day :
               i \in {i \in 1..Len(Retrieved(r)) : Retrieved(r)[i].recent}} :
           r \in {r \in 1..Len(tried) : MethodUsed(r) > 0}}

C17_CapTruncatesDetailOnly ==
    (rpc = "returned" /\ ~IsNone(summary)) =>
       LET ad == Val(summary) IN
       /\ SumOver(ad.commit_frequency_by_day,
                  DOMAIN ad.commit_frequency_by_day)
             = ad.total_recent_commits
       /\ SumOver(ad.commit_frequency_by_hour,
                  DOMAIN ad.commit_frequency_by_hour)
             = ad.total_recent_commits
       /\ ad.active_days = DaysInWindow

\* C21: a CSV file that is absent at first holds, whenever no append is in
\* progress, one header row followed by data rows only, one per append made
\* when none has failed (a failed append adds no row); the append that
\* finds the file absent writes the header and its row, and every later one
\* leaves the rows already there as they are and adds its row at the end.
C21_HeaderThenRows ==
    (entry = "sink" /\ \A u \in Users : pc[u] = "idle")
    => /\ ~csvFile.exists => csvFile.bytes = <<>>
       /\ csvFile.exists
          => /\ Len(csvFile.bytes) \in 2..(1 + append_calls)
             /\ csvFile.bytes[1] = HeaderLine
             /\ \A i \in 2..Len(csvFile.bytes) : csvFile.bytes[i].t = "row"
       /\ (log = {} /\ append_calls >= 1)
          => (csvFile.exists /\ Len(csvFile.bytes) = 1 + append_calls)

C21_CsvStep ==
    \A u \in Users :
        /\ (pc[u] = "csv_check" /\ pc'[u] = "csv_open_w") => ~csvFile.exists
        /\ (pc[u] = "csv_write_new" /\ pc'[u] = "idle")
           => csvFile'.bytes = <<HeaderLine, RowLine(u)>>
        /\ (pc[u] = "csv_append" /\ pc'[u] = "idle")
           => /\ csvFile.bytes[1] = HeaderLine
              /\ csvFile'.bytes = Append(csvFile.bytes, RowLine(u))

C21_CsvSequentialAppends ==
    [](C21_HeaderThenRows) /\ [][C21_CsvStep]_vars

C21_Witness ==
    /\ entry = "sink"
    /\ faults = 0
    /\ append_calls = MaxAppends
    /\ \A u \in Users : pc[u] = "idle"
    /\ Len(csvFile.bytes) = MaxAppends + 1
    /\ \E i \in 2..MaxAppends : csvFile.bytes[i] # csvFile.bytes[i + 1]

\* C22: an entity whose record holds a value that is neither a datetime nor
\* JSON-serializable is never reported as saved: the encoding error of its
\* append reaches the task, so the "collected and saved" message is not
\* emitted for a record the JSON file does not hold.
ReportedSaved(u) == Msg("saved", u, 0, 0) \in progress

C22_EncodingErrorSurfaced ==
    \A u \in Users :
        (~IsNone(ret[u]) /\ DumpRaises(Val(ret[u])))
        => (ReportedSaved(u) => CountIn(Records(jsonFile).items, u) >= 1)

\* C23: an append that fails is logged and ends like one that succeeded:
\* the task of the entity returns its record, no other task and not the
\* orchestrator is touched by the failing step, and when the run has
\* returned the entity is in the result list.  In a run with one worker the
\* entities finished after the failure have their record written to the
\* JSON file and their row in the CSV file.
AppendFailed(u) == Msg("error_appending", u, 0, 0) \in log

C23_FailureStep ==
    \A u \in Users :
        (~AppendFailed(u) /\ AppendFailed(u)')
        => /\ entry # "sink" => (pc'[u] = "finished" /\ ~IsNone(ret'[u]))
           /\ \A v \in Users \ {u} : pc'[v] = pc[v] /\ ret'[v] = ret[v]
           /\ opc' = opc

C23_AfterFailure ==
    (opc = "returned" /\ save_immediately)
    => \A u \in Submitted :
          /\ AppendFailed(u) => CountIn(results, u) = 1
          /\ (max_workers = 1 /\ ~IsNone(ret[u]) /\ ~AppendFailed(u))
             => (InJsonBytes(u) /\ CsvRows(u) = 1)

C23_AppendFailureDoesNotAbort ==
    [](C23_AfterFailure) /\ [][C23_FailureStep]_vars

C23_Witness ==
    /\ opc = "returned"
    /\ max_workers = 1
    /\ usernames = <<1, 2>>
    /\ AppendFailed(1)
    /\ ~InJsonBytes(1)
    /\ CountIn(results, 1) = 1
    /\ InJsonBytes(2) /\ CsvRows(2) = 1

\* C24: when mine_repository_contributors has returned, the list it returns
\* holds exactly one record for every contributor of type User whose
\* identity fetch did not fail and whose task was not skipped by a stop
\* request, whatever the number of its repositories and whatever sections
\* failed; it holds no record for a contributor of another type.
UserContributors ==
    {contributors[i].login :
        i \in {j \in 1..Len(contributors) : contributors[j].type = "User"}}

C24_EveryUserContributorReturned ==
    (entry = "repo" /\ opc = "mine_returned")
    => /\ \A u \in UserContributors :
             (~IdentityFailed(u) /\ ~stop_event) => CountIn(results, u) = 1
       /\ \A i \in 1..Len(results) :
             /\ results[i]["username"] \in UserContributors
             /\ CountIn(results, results[i]["username"]) = 1

C24_Witness ==
    /\ entry = "repo"
    /\ opc = "mine_returned"
    /\ Len(results) = NumUsers
    /\ \E i \in 1..Len(results) :
          /\ NoOriginalRepos(results[i]["username"])
          /\ results[i]["commit_activity"] = "zero_summary"
    /\ \E i \in 1..Len(results) :
          \E k \in SectionKeySet : results[i][k] = "default"

\* C25: while a record is being collected it holds the identity fields and
\* the keys of the sections before the current one, in the fixed order; a
\* section step, failing or not, sets the key of the current section only
\* and leaves every other field as it was; a failing one sets the default,
\* and the next section in the order is attempted next (after the last one
\* the record is complete).
IdentityKeySet == {IdentityKeys[i] : i \in 1..Len(IdentityKeys)}

SectionFailedNow(u) ==
    /\ Msg("warning_section", u, section[u], 0) \notin log
    /\ Msg("warning_section", u, section[u], 0) \in log'

RecordAfter(u) == IF IsNone(ret'[u]) THEN Val(user_data'[u]) ELSE Val(ret'[u])

C25_SectionsInOrder ==
    \A u \in Users :
        pc[u] = "sections"
        => /\ section[u] \in 1..NumSections
           /\ DOMAIN Val(user_data[u]) =
                 IdentityKeySet \cup
                 {SectionKeys[j] : j \in 1..(section[u] - 1)}

C25_SectionStep ==
    \A u \in Users :
        (pc[u] = "sections" /\ (pc'[u] # pc[u] \/ section'[u] # section[u]))
        => LET key == SectionKeys[section[u]]
               old == Val(user_data[u])
           IN /\ DOMAIN RecordAfter(u) = (DOMAIN old) \cup {key}
              /\ \A k \in DOMAIN old : RecordAfter(u)[k] = old[k]
              /\ SectionFailedNow(u) => RecordAfter(u)[key] = "default"
              /\ IF section[u] < NumSections
                 THEN pc'[u] = "sections" /\ section'[u] = section[u] + 1
                 ELSE pc'[u] \in {"append", "finished"}

C25_SectionFailureIsLocal ==
    [](C25_SectionsInOrder) /\ [][C25_SectionStep]_vars

C25_Witness ==
    \E u \in Users :
        /\ ~IsNone(ret[u])
        /\ Val(ret[u])["created_at"] = "datetime"
        /\ Val(ret[u])[SectionKeys[1]] = "data"
        /\ Val(ret[u])[SectionKeys[2]] = "default"
        /\ \A j \in 3..NumSections : Val(ret[u])[SectionKeys[j]] = "data"

\* C26: a repository for which every method of the chain raised a
\* GithubException (two methods when all commits are fetched, three
\* otherwise) is skipped: the failing step changes no counter and goes to
\* the next repository, the repository has no entry in repo_commit_counts
\* and no commit among the details, the call does not raise, and when it
\* returns without a stop request every repository of the scan has been
\* tried.
AllRaised(attempts) ==
    /\ Len(attempts) = ChainLength(fetch_all_commits)
    /\ \A j \in 1..Len(attempts) : attempts[j].outcome = "github"

ChainExhausted(r) == AllRaised(tried[r])

Skipped == {r \in 1..Len(tried) : ChainExhausted(r)}

C26_SkippedContributesNothing ==
    (entry = "resolve" /\ Skipped # {})
    => /\ rpc # "raised"
       /\ \A r \in Skipped :
             /\ \A j \in 1..Len(repo_commit_counts) :
                   repo_commit_counts[j][1] # r
             /\ \A j \in 1..Len(activity_data.recent_commits) :
                   activity_data.recent_commits[j].repo # r
       /\ activity_data.total_commits
             = IF fetch_all_commits
               THEN SumCounts(repo_commit_counts) + repo_commits ELSE 0
       /\ (rpc = "returned" /\ ~stop_event)
          => /\ ~IsNone(summary)
             /\ \A i \in 1..ScanLength : tried[original_repos[i]] # <<>>
             /\ IsNone(Val(summary).most_active_repo)
                \/ Val(Val(summary).most_active_repo) \notin Skipped

C26_SkipStep ==
    (rpc = "strategy" /\ ~AllRaised(tried[CurrentRepo])
     /\ AllRaised(tried'[CurrentRepo]))
    => /\ activity_data' = activity_data
       /\ repo_commit_counts' = repo_commit_counts
       /\ rpc' = "repo_begin"
       /\ repo_idx' = repo_idx + 1

C26_ExhaustedChainSkipsRepository ==
    [](C26_SkippedContributesNothing) /\ [][C26_SkipStep]_vars

C26_Witness ==
    /\ rpc = "returned"
    /\ ~fetch_all_commits
    /\ ~stop_event
    /\ Len(original_repos) = 2
    /\ ChainExhausted(original_repos[1])
    /\ Len(repo_commit_counts) = 1
    /\ repo_commit_counts[1][1] = original_repos[2]
    /\ repo_commit_counts[1][2] > 0
    /\ Val(summary).total_recent_commits = repo_commit_counts[1][2]

\* C27: the stop event is read at the start of the call and before each
\* repository.  Read as set at the start, the call returns the zero summary
\* without a query; read as set before a repository, the next step is the
\* return of the summary finalized from what has been aggregated, with no
\* query for that repository or a later one.  Set while a repository is
\* being queried or its commits are counted, it does not interrupt that
\* work: the repository is finished first.
C27_StoppedSummary ==
    (entry = "resolve" /\ rpc = "returned" /\ stop_event)
    => /\ ~IsNone(summary)
       /\ stop_phase = "before"
          => /\ Val(summary) = DefaultSummary(fetch_all_commits)
             /\ \A r \in 1..Len(tried) : tried[r] = <<>>
       /\ stop_phase # "before"
          => /\ \A i \in 1..Len(original_repos) :
                   (i < repo_idx) <=> (tried[original_repos[i]] # <<>>)
             /\ Val(summary).repositories_analyzed = repo_idx - 1
             /\ Val(summary).most_active_repo = MostActive(repo_commit_counts)
             /\ \A j \in 1..Len(repo_commit_counts) :
                   repo_commit_counts[j][2] =
                      Len(Retrieved(repo_commit_counts[j][1]))

C27_StopStep ==
    /\ (stop_event /\ rpc = "repo_begin")
       => /\ rpc' = "returned"
          /\ tried' = tried
          /\ summary' = Some(Finalized(activity_data, repo_commit_counts))
    /\ (stop_event /\ rpc \in {"strategy", "commits"})
       => rpc' \in {"strategy", "commits", "repo_begin"}

C27_StopReadBeforeEachRepository ==
    [](C27_StoppedSummary) /\ [][C27_StopStep]_vars

C27_Witness ==
    /\ rpc = "returned"
    /\ stop_phase = "in_flight"
    /\ Len(original_repos) = 2
    /\ repo_idx = 2
    /\ tried[original_repos[2]] = <<>>
    /\ repos[original_repos[1]].kind = "small"
    /\ repo_commit_counts =
          <<<<original_repos[1], Len(Retrieved(original_repos[1]))>>>>
    /\ Val(summary).total_recent_commits > 0

\* C28: under SpecLive a run whose tasks have been submitted eventually
\* returns, with or without a stop request; when it has returned every
\* submitted task has completed and has been tallied, and the returned list
\* holds the record of every task that returned one.
C28_AllTalliedAtReturn ==
    (opc \in {"returned", "mine_returned"} /\ usernames # <<>>)
    => /\ \A u \in Submitted : pc[u] = "processed"
       /\ successful_count + failed_count = Len(usernames)
       /\ \A u \in Submitted :
             IF IsNone(ret[u]) THEN CountIn(results, u) = 0
             ELSE \E i \in 1..Len(results) : results[i] = Val(ret[u])
       /\ Len(results) = successful_count

C28_RunEventuallyReturns ==
    /\ [](C28_AllTalliedAtReturn)
    /\ (opc = "submitted") ~> (opc = "returned")

C28_Witness ==
    /\ opc = "returned"
    /\ stop_phase = "during"
    /\ Len(usernames) = NumUsers
    /\ successful_count >= 1
    /\ failed_count >= 1

\* C29: repositories_analyzed is the number of repositories for which a
\* commit query was started and never exceeds the smaller of the scan limit
\* (25 when all commits are fetched, 15 otherwise) and total_repositories;
\* total_repositories is the number of listed repositories that are not
\* forks, whatever the limit; no fork is ever queried.
Attempted == {r \in 1..Len(tried) : tried[r] # <<>>}

Smaller(a, b) == IF a < b THEN a ELSE b

ListingFetched ==
    /\ rpc \in {"repo_begin", "strategy", "commits", "returned"}
    /\ rpc = "returned"
       => /\ ~IsNone(summary)
          /\ stop_phase # "before"
          /\ Msg("error_analyzing", 0, 0, 0) \notin log

Succeeded == {r \in 1..Len(tried) : MethodUsed(r) > 0}

C30_MostActiveRepo ==
    (entry = "resolve" /\ rpc = "returned" /\ ~IsNone(summary))
    => LET counts == repo_commit_counts
           best == Val(summary).most_active_repo
       IN /\ {counts[j][1] : j \in 1..Len(counts)} = Succeeded
          /\ \A j \in 1..Len(counts) :
                /\ counts[j][2] = Len(Retrieved(counts[j][1]))
                /\ \A k \in (j + 1)..Len(counts) :
                      counts[j][1] < counts[k][1]
          /\ (Succeeded = {}) <=> IsNone(best)
          /\ ~IsNone(best)
             => \E i \in 1..Len(counts) :
                   /\ counts[i][1] = Val(best)
                   /\ \A j \in 1..Len(counts) : counts[j][2] <= counts[i][2]
                   /\ \A j \in 1..(i - 1) : counts[j][2] < counts[i][2]

C30_Witness ==
    /\ rpc = "returned"
    /\ Len(repo_commit_counts) = 2
    /\ repo_commit_counts[1][2] = repo_commit_counts[2][2]
    /\ repo_commit_counts[1][2] > 0
    /\ Val(summary).most_active_repo = Some(repo_commit_counts[1][1])

\* C31: whether all commits are fetched or not, every day in active_days,
\* every key of the counts by day and by hour and every stored detail comes
\* from a retrieved commit dated on or after the cutoff; counting a commit
\* older than the cutoff changes total_commits (when all commits are
\* fetched) and the count of its repository, and nothing else.
WindowCommits ==
    UNION {LET h == Since(Retrieved(r)) IN {h[i] : i \in 1..Len(h)} :
           r \in {r \in 1..Len(tried) : MethodUsed(r) > 0}}

C31_FromWindowOnly ==
    (entry = "resolve" /\ InAnalysis)
    => LET w == WindowCommits
           ids == {<<c.sha, c.day, c.hour>> : c \in w}
       IN /\ activity_data.active_days \subseteq {c.day : c \in w}
          /\ DOMAIN activity_data.commit_frequency_by_day
                \subseteq {c.day : c \in w}
          /\ DOMAIN activity_data.commit_frequency_by_hour
                \subseteq {c.hour : c \in w}
          /\ \A j \in 1..Len(activity_data.recent_commits) :
                LET e == activity_data.recent_commits[j]
                IN <<e.sha, e.day, e.hour>> \in ids

C31_OldCommitStep ==
    (rpc = "commits" /\ commit_idx' = commit_idx + 1
     /\ ~commits[commit_idx].recent)
    => /\ activity_data' =
             [activity_data EXCEPT
                 !.total_commits = IF fetch_all_commits THEN @ + 1 ELSE @]
       /\ repo_commits' = repo_commits + 1

C31_WindowStatistics ==
    [](C31_FromWindowOnly) /\ [][C31_OldCommitStep]_vars

C31_Witness ==
    /\ rpc = "returned"
    /\ fetch_all_commits
    /\ Len(repos) = 1
    /\ repos[1].kind = "small"
    /\ repo_commit_counts = <<<<1, 2>>>>
    /\ Val(summary).total_commits = 2
    /\ Val(summary).total_recent_commits = 1
    /\ Val(summary).active_days = {1}
    /\ Len(Val(summary).recent_commits) = 1

\* C32: as long as no reading of a commit's details has failed, the list of
\* details holds as many entries as commits inside the window have been
\* counted, up to 50; it is empty when none has been counted.
NoDetailReadFailed ==
    \A r \in 1..Len(tried) : Msg("error_commit", r, 0, 0) \notin log

C32_DetailCount ==
    (entry = "resolve" /\ InAnalysis /\ NoDetailReadFailed)
    => /\ Len(activity_data.recent_commits)
             = Smaller(50, activity_data.total_recent_commits)
       /\ (rpc = "returned" /\ ~IsNone(summary))
          => /\ Len(Val(summary).recent_commits)
                   = Smaller(50, Val(summary).total_recent_commits)
             /\ WindowCommits = {} => Val(summary).recent_commits = <<>>

C32_Witness ==
    /\ rpc = "returned"
    /\ ~fetch_all_commits
    /\ NoDetailReadFailed
    /\ Val(summary).total_recent_commits > 50
    /\ Len(Val(summary).recent_commits) = 50

\* C33: in every returned summary avg_commits_per_day is the fraction
\* total_recent_commits / number of active days when there is an active
\* day, and 0 when there is none; its denominator is never 0.
C33_AverageDefined ==
    (entry = "resolve" /\ rpc = "returned" /\ ~IsNone(summary))
    => LET ad == Val(summary) IN
       /\ ad.avg_commits_per_day[2] # 0
       /\ IF ad.active_days # {}
          THEN ad.avg_commits_per_day =
                  <<ad.total_recent_commits, Cardinality(ad.active_days)>>
          ELSE ad.avg_commits_per_day[1] = 0

C33_Witness ==
    /\ rpc = "returned"
    /\ ~IsNone(summary)
    /\ Cardinality(Val(summary).active_days) = 2
    /\ Val(summary).avg_commits_per_day[1] > 50
    /\ Val(summary).avg_commits_per_day[2] = 2

\* C34: when the JSON file is longer than two characters, has no "]" among
\* its last two and is a valid array but for the missing closing bracket,
\* a successful append leaves every earlier character in place, adds ",",
\* the record and "]" at the end, and the file then parses as the earlier
\* records followed by the new one.
WithBracket(f) == Append(f.bytes, Tok("]"))

C34_DefensiveStep ==
    \A u \in Users :
        (/\ pc[u] = "json_write_append" /\ pc'[u] = "csv_check"
         /\ ~HasBracket(LastChars(jsonFile, 2))
         /\ ParseJson(WithBracket(jsonFile)).ok)
        => /\ Len(jsonFile.bytes) > 2
           /\ jsonFile'.bytes =
                 jsonFile.bytes \o JsonNext(Val(user_data[u]))
           /\ ParseJson(jsonFile'.bytes) =
                 [ok |-> TRUE,
                  items |-> Append(ParseJson(WithBracket(jsonFile)).items,
                                   JsonImage(Val(user_data[u])))]

C34_DefensiveAppend == [][C34_DefensiveStep]_vars

C34_Witness ==
    /\ entry = "sink"
    /\ \A u \in Users : pc[u] = "idle"
    /\ ParseJson(jsonFile.bytes).ok
    /\ Len(ParseJson(jsonFile.bytes).items) >= 2
    /\ \E i \in 1..(Len(jsonFile.bytes) - 2) :
          /\ jsonFile.bytes[i].t = "}"
          /\ jsonFile.bytes[i + 1].t = "nl"
          /\ jsonFile.bytes[i + 2].t = ","

\* C35: an append whose serialization fails, made to a JSON file that is a
\* valid array, leaves the file a valid array of the same records.
C35_FailedAppendLeavesArray ==
    [][\A u \in Users :
          (/\ pc[u] = "json_write_append"
           /\ DumpRaises(Val(user_data[u]))
           /\ pc'[u] # pc[u]
           /\ ParseJson(jsonFile.bytes).ok)
          => ParseJson(jsonFile'.bytes) = ParseJson(jsonFile.bytes)]_vars

\* C36: an append that finds a JSON file of one or two characters writes
\* nothing to it and reports no error, and goes on to the CSV file, where the
\* record's row is added; whenever no append is in progress and none has
\* failed, such a JSON file holds no record while the CSV file holds one row
\* for each append made.
ShortJson == jsonFile.exists /\ Len(jsonFile.bytes) \in 1..2
C36_ShortFileStep ==
    \A u \in Users :
        /\ (pc[u] = "append" /\ pc'[u] # pc[u] /\ faults' = faults /\ ShortJson)
           => pc'[u] = "json_open_rw"
        /\ (pc[u] = "json_open_rw" /\ pc'[u] # pc[u] /\ ShortJson)
           => /\ pc'[u] = "csv_check"
              /\ jsonFile' = jsonFile
              /\ log' = log
        /\ (pc[u] \in {"csv_write_new", "csv_append"} /\ pc'[u] = "idle"
            /\ ShortJson)
           => /\ jsonFile' = jsonFile
              /\ csvFile'.bytes[Len(csvFile'.bytes)] = RowLine(u)
              /\ Len(csvFile'.bytes) > Len(csvFile.bytes)
C36_ShortFileKeepsNothing ==
    (entry = "sink" /\ ShortJson /\ log = {} /\ \A u \in Users : pc[u] = "idle")
    => /\ \A i \in 1..Len(jsonFile.bytes) :
              jsonFile.bytes[i].t \notin {"{", "}", "field"}
       /\ append_calls >= 1 => Len(csvFile.bytes) = 1 + append_calls
C36_ShortFileAppend ==
    [](C36_ShortFileKeepsNothing) /\ [][C36_ShortFileStep]_vars
C36_Witness ==
    /\ entry = "sink"
    /\ \A u \in Users : pc[u] = "idle"
    /\ jsonFile.bytes = <<Tok("["), Tok("]")>>
    /\ log = {}
    /\ append_calls >= 2
    /\ Len(csvFile.bytes) = 1 + append_calls

\* C37: an entity whose append failed has a task that returned its record
\* and emitted the "collected and saved immediately" message; once the
\* gather loop has taken its future the record is in the result list and
\* the entity is one of those counted in successful_count, which counts
\* exactly the handled tasks that returned a record, whether or not the
\* output files hold it.
ReturnedRecord == {u \in Processed : ~IsNone(ret[u])}
C37_FailedAppendCounted ==
    /\ successful_count = Cardinality(ReturnedRecord)
    /\ \A u \in Users :
          (entry # "sink" /\ AppendFailed(u))
          => /\ pc[u] \in {"finished", "processed"}
             /\ ~IsNone(ret[u])
             /\ ReportedSaved(u)
             /\ pc[u] = "processed"
                => (u \in ReturnedRecord /\ CountIn(results, u) = 1)
C37_Witness ==
    /\ opc = "returned"
    /\ \E u \in Submitted :
          /\ AppendFailed(u)
          /\ ReportedSaved(u)
          /\ CountIn(results, u) = 1
          /\ CountIn(Records(jsonFile).items, u) = 0
          /\ CsvRows(u) = 0
    /\ Records(jsonFile).ok
    /\ successful_count = 2
    /\ Len(Records(jsonFile).items) = 1
    /\ Len(csvFile.bytes) = 2

\* C38: while the stop event is set, a task that has not yet run the stop
\* check of collect_single_user can only start and then finish with None,
\* without fetching anything, calling the sink or touching a file; the tasks
\* past that check are in the pool, so at most max_workers of them, no task
\* joins them while the event is set, and only they call the sink or write
\* to a file, each calling it once.
PastStopCheck == {u \in Running : pc[u] # "collect"}
C38_AfterStopStep ==
    stop_event =>
        /\ stop_event'
        /\ PastStopCheck' \subseteq PastStopCheck
        /\ \A u \in Users :
              /\ (pc[u] = "queued" /\ pc'[u] # pc[u])
                 => (pc'[u] = "collect" /\ UNCHANGED <<files, append_calls>>)
              /\ (pc[u] = "collect" /\ pc'[u] # pc[u])
                 => /\ pc'[u] = "finished"
                    /\ IsNone(ret'[u])
                    /\ IsNone(user_data'[u])
                    /\ UNCHANGED <<files, append_calls, faults, log>>
                    /\ progress' = progress
        /\ (files' # files \/ append_calls' # append_calls)
           => \E u \in PastStopCheck : pc'[u] # pc[u]
        /\ append_calls' # append_calls
           => /\ append_calls' = append_calls + 1
              /\ \E u \in PastStopCheck :
                    pc[u] = "sections" /\ pc'[u] = "append"
C38_PastStopCheckBounded ==
    /\ Cardinality(PastStopCheck) <= max_workers
    /\ \A u \in Users :
          (stop_phase = "before" \/ (stop_event /\ pc[u] \in {"queued", "collect"}))
          => /\ IsNone(user_data[u])
             /\ \A k \in SectionKeySet : Msg(k, u, 0, 0) \notin progress
             /\ ~InJsonBytes(u) /\ CsvRows(u) = 0
C38_StopSkipsLaterTasks ==
    [](C38_PastStopCheckBounded) /\ [][C38_AfterStopStep]_vars
C38_Witness ==
    /\ opc = "returned"
    /\ stop_phase = "during"
    /\ faults = 0
    /\ \E u, v \in Submitted :
          /\ IsNone(ret[v])
          /\ Msg("starting", v, 0, 0) \in progress
          /\ \A k \in SectionKeySet : Msg(k, v, 0, 0) \notin progress
          /\ ~InJsonBytes(v)
          /\ InJsonBytes(u)
          /\ \E i \in 1..Len(Records(jsonFile).items) :
                /\ Records(jsonFile).items[i]["username"] = u
                /\ HasCutSection(Records(jsonFile).items[i])

====
